---- MODULE Spec2Model ----
(***************************************************************************)
(* A model of the Lighter connector's synchronisation core:                *)
(*   - _NonceManager (lighter_auth.py): a locked, strictly increasing      *)
(*     counter used to number signed transactions;                         *)
(*   - the reconnect loop of the stream data sources                       *)
(*     (_connected_websocket_assistant) with its exponential backoff;      *)
(*   - the request throttler configured by RATE_LIMITS;                    *)
(*   - the order/trade handlers of the connectors feeding the order        *)
(*     tracker from REST polling and from the user stream.                 *)
(* Each subsystem has its own next-state relation and specification; the   *)
(* variables of the other subsystems stay at their initial values.         *)
(***************************************************************************)
EXTENDS Integers, Sequences, FiniteSets, TLC

(***************************************************************************)
(* Bounds of the model.                                                    *)
(***************************************************************************)
NThreads == 2          \* concurrent callers of the nonce manager
MaxCalls == 4          \* next()/set() calls over one run
MaxSetVal == 2         \* set(value) draws value from 0..MaxSetVal
MaxFailures == 8       \* rate-limited connect failures in a row
MaxSessions == 3       \* calls of _connected_websocket_assistant over one run
MaxPings == 2          \* heartbeat intervals of one _ping_thread task
MaxPairs == 2          \* trading pairs of the order book data source
MaxAuths == 3          \* LighterAuth instances built for one signing identity
MaxMarkets == 2        \* markets with positions; trading pairs of the markets list
MaxVariants == 3       \* exchange symbols of one trading pair besides "base-quote"
MaxListed == 4         \* entries of the markets list
MaxSigned == 5         \* transactions signed for that identity over one run
MaxRequests == 4       \* throttler acquire() calls over one run
MaxWaiting == 2        \* acquire() calls suspended at the same time
TickStep == 20         \* seconds by which the model's clock advances
MaxTicks == 3          \* clock advances over one run
NOrders == 2           \* client orders the strategy may place
MaxOrderSteps == 5     \* operations on orders over one run
MaxAuditSteps == 4     \* operations on orders over one audited run
MaxAuthOps == 4        \* operations on LighterAuth over one run
MaxAuthClock == 3      \* time.time() runs over 0..MaxAuthClock
MaxTtl == 2            \* expiry_seconds is drawn from 1..MaxTtl
MaxEvents == 3         \* user-stream messages processed over one run
MaxTs == 1             \* update timestamps are drawn from 0..MaxTs

\* lighter_constants.py: weights and limits of RATE_LIMITS
WEIGHT_SEND_TX == 6
WEIGHT_INFO == 100
WEIGHT_PUBLIC_DATA == 50
WEIGHT_ACCOUNT_DATA == 100
WEIGHT_DEFAULT == 300
MAX_REQUEST_PER_MINUTE == 60
SEND_TX_LIMIT == 10
SINGLE_LIMIT == 1
TIME_INTERVAL == 60
\* a rule's weight on its own count (RateLimit without an explicit weight)
OWN_WEIGHT == 1

\* lighter_constants.py: reconnect backoff settings (seconds)
INITIAL_BACKOFF == 1
MAX_BACKOFF == 60
BACKOFF_MULTIPLIER == 2

Threads == 1..NThreads
SetValues == 0..MaxSetVal

VARIABLES
    \* ---- _NonceManager ----
    nonce_last,        \* _NonceManager._last
    nonce_lock,        \* the holders of _NonceManager._lock (at most one)
    thr,               \* per thread: pc, argument of set(), local of "+= 1"
    ncalls,            \* next()/set() calls started so far
    nlog,              \* history: what each completed call did, in order
    \* ---- stream data source (_connected_websocket_assistant) ----
    ws_pc,             \* where the data source's connect coroutine stands
    ws_private,        \* TRUE: user stream (auth token), FALSE: order book stream
    current_backoff,   \* self._current_backoff
    auth_tokens,       \* tokens created so far by _get_auth_token
    ws_attempts,       \* ws.connect attempts of the current call
    ws_sessions,       \* calls of _connected_websocket_assistant so far
    waits,             \* history: sleeps since the last successful connect
    prev_waits,        \* history: the sleeps that preceded the last successful connect
    ws_failures,       \* history: rate-limited connect failures of the current call
    ws_error,          \* history: the last exception raised inside the current call
    ws_tokens,         \* history: auth tokens created by the current call
    \* ---- user stream session: subscription, heartbeat task, dispatch loop ----
    ws_subs,           \* subscribe messages sent on the current connection
    hb_pc,             \* the _ping_thread task of the current connection
    hb_sleeps,         \* heartbeat intervals it slept through
    hb_pings,          \* pings it sent
    hb_failed,         \* history: one of its ping sends raised
    dl_pc,             \* the connector's _user_stream_event_listener task
    \* ---- request throttler ----
    now,               \* the clock, in seconds
    charged,           \* pool id -> time -> weight reserved at that time
    admitted,          \* history: rule id -> time -> requests admitted at that time
    th_waiting,        \* rule ids with a suspended acquire()
    th_requests,       \* acquire() calls so far
    \* ---- connectors and order tracker ----
    conn,              \* which connector was built: "spot" or "perp"
    order_tracker,     \* self._order_tracker: client order id -> order
    order_steps,       \* operations on orders so far
    oghost,            \* history per order: first terminal state, late events
    fed,               \* history per trade: channels that delivered it
    applied,           \* history per trade: times it changed filled_amount
    \* ---- LighterAuth ----
    auth_token,        \* self._auth_token (0: None)
    auth_token_expiry, \* self._auth_token_expiry
    auth_clock,        \* time.time()
    signer_calls,      \* calls of create_auth_token_with_expiry so far
    auth_ops,          \* operations on LighterAuth so far
    auth_last,         \* history: the last operation and what it did
    \* ---- user stream: _process_event_message ----
    ev_queue,          \* the output queue
    ev_count,          \* messages processed so far
    ev_last,           \* history: the last message and what the handler did
    \* ---- orders: audit of the last input ----
    olast,             \* history: what the last input referred to and did
    \* ---- order book stream: subscriptions ----
    subscription_count, \* self._subscription_count
    sub_last,          \* history: the last _subscribe_channels call
    \* ---- authenticators of one signing identity ----
    auth_nonces,       \* per LighterAuth instance: self._nonce._last
    signed_nonces,     \* history: the nonces of the identity's transactions
    \* ---- user stream event listener ----
    dl_last,           \* history: the last event the listener took off the queue
    \* ---- perpetual connector: positions and symbol map ----
    account_positions, \* self._perpetual_trading.account_positions
    pos_last,          \* history: the last positions response
    symbol_map,        \* the trading pair symbol map: exchange symbol -> trading pair
    sym_markets        \* history: the markets list the map was built from

nonceVars == <<nonce_last, nonce_lock, thr, ncalls, nlog>>

streamVars == <<ws_pc, ws_private, current_backoff, auth_tokens, ws_attempts,
                ws_sessions, waits, prev_waits, ws_failures, ws_error, ws_tokens>>

heartbeatVars == <<hb_pc, hb_sleeps, hb_pings, hb_failed>>

sessionVars == <<ws_subs, hb_pc, hb_sleeps, hb_pings, hb_failed, dl_pc>>

throttleVars == <<now, charged, admitted, th_waiting, th_requests>>

orderVars == <<conn, order_tracker, order_steps, oghost, fed, applied>>

authVars == <<auth_token, auth_token_expiry, auth_clock, signer_calls,
              auth_ops, auth_last>>

eventVars == <<ev_queue, ev_count, ev_last>>

subscribeVars == <<subscription_count, sub_last>>

identityVars == <<auth_nonces, signed_nonces>>

dispatchVars == <<dl_last>>

positionVars == <<account_positions, pos_last>>

symbolVars == <<symbol_map, sym_markets>>

vars == <<nonce_last, nonce_lock, thr, ncalls, nlog,
          ws_pc, ws_private, current_backoff, auth_tokens, ws_attempts,
          ws_sessions, waits, prev_waits, ws_failures, ws_error, ws_tokens,
          ws_subs, hb_pc, hb_sleeps, hb_pings, hb_failed, dl_pc,
          ev_queue, ev_count, ev_last, olast, subscription_count, sub_last, auth_nonces, signed_nonces, dl_last,
          account_positions, pos_last, symbol_map, sym_markets,
          now, charged, admitted, th_waiting, th_requests,
          conn, order_tracker, order_steps, oghost, fed, applied,
          auth_token, auth_token_expiry, auth_clock, signer_calls,
          auth_ops, auth_last>>

(***************************************************************************)
(* _NonceManager                                                           *)
(***************************************************************************)
IdleThread == [pc |-> "idle", arg |-> 0, tmp |-> 0]

NonceInit ==
    /\ nonce_last = 0
    /\ nonce_lock = {}
    /\ thr = [t \in Threads |-> IdleThread]
    /\ ncalls = 0
    /\ nlog = <<>>

\* "with self._lock:" blocks until the lock is free.
LockFree_NoMutex(t) == TRUE
LockFree(t) == nonce_lock = {}

\* set(): "if value > self._last: self._last = value"
SetValue_Assign(last, value) == value
SetValue(last, value) == IF value > last THEN value ELSE last

\* A caller enters next().
NextCall(t) ==
    /\ thr[t].pc = "idle"
    /\ ncalls < MaxCalls
    /\ thr' = [thr EXCEPT ![t] = [pc |-> "n_lock", arg |-> 0, tmp |-> 0]]
    /\ ncalls' = ncalls + 1
    /\ UNCHANGED <<nonce_last, nonce_lock, nlog>>

\* next(): the lock is taken.
NextAcquire(t) ==
    /\ thr[t].pc = "n_lock"
    /\ LockFree(t)
    /\ nonce_lock' = nonce_lock \cup {t}
    /\ thr' = [thr EXCEPT ![t].pc = "n_load"]
    /\ UNCHANGED <<nonce_last, ncalls, nlog>>

\* next(): "self._last += 1" reads the counter ...
NextLoad(t) ==
    /\ thr[t].pc = "n_load"
    /\ thr' = [thr EXCEPT ![t].pc = "n_store", ![t].tmp = nonce_last]
    /\ UNCHANGED <<nonce_last, nonce_lock, ncalls, nlog>>

\* ... and writes it back incremented.
NextStore(t) ==
    /\ thr[t].pc = "n_store"
    /\ nonce_last' = thr[t].tmp + 1
    /\ thr' = [thr EXCEPT ![t].pc = "n_ret"]
    /\ UNCHANGED <<nonce_lock, ncalls, nlog>>

\* next(): "return self._last", leaving the with-block releases the lock.
NextReturn(t) ==
    /\ thr[t].pc = "n_ret"
    /\ nlog' = Append(nlog, [op |-> "next", th |-> t, arg |-> 0, before |-> 0,
                             ret |-> nonce_last])
    /\ nonce_lock' = nonce_lock \ {t}
    /\ thr' = [thr EXCEPT ![t] = IdleThread]
    /\ UNCHANGED <<nonce_last, ncalls>>

\* A caller enters set(value).
SetCall(t, v) ==
    /\ thr[t].pc = "idle"
    /\ ncalls < MaxCalls
    /\ thr' = [thr EXCEPT ![t] = [pc |-> "s_lock", arg |-> v, tmp |-> 0]]
    /\ ncalls' = ncalls + 1
    /\ UNCHANGED <<nonce_last, nonce_lock, nlog>>

\* set(): the lock is taken.
SetAcquire(t) ==
    /\ thr[t].pc = "s_lock"
    /\ LockFree(t)
    /\ nonce_lock' = nonce_lock \cup {t}
    /\ thr' = [thr EXCEPT ![t].pc = "s_store"]
    /\ UNCHANGED <<nonce_last, ncalls, nlog>>

\* set(): the guarded assignment, then the lock is released.
SetStore(t) ==
    /\ thr[t].pc = "s_store"
    /\ nonce_last' = SetValue(nonce_last, thr[t].arg)
    /\ nlog' = Append(nlog, [op |-> "set", th |-> t, arg |-> thr[t].arg, before |-> nonce_last,
                             ret |-> SetValue(nonce_last, thr[t].arg)])
    /\ nonce_lock' = nonce_lock \ {t}
    /\ thr' = [thr EXCEPT ![t] = IdleThread]
    /\ UNCHANGED ncalls

NonceNext ==
    \/ \E t \in Threads : NextCall(t)
    \/ \E t \in Threads : NextAcquire(t)
    \/ \E t \in Threads : NextLoad(t)
    \/ \E t \in Threads : NextStore(t)
    \/ \E t \in Threads : NextReturn(t)
    \/ \E t \in Threads, v \in SetValues : SetCall(t, v)
    \/ \E t \in Threads : SetAcquire(t)
    \/ \E t \in Threads : SetStore(t)

(***************************************************************************)
(* Stream data sources: _connected_websocket_assistant                     *)
(*                                                                         *)
(* ws_pc:  "unbuilt"   before __init__                                     *)
(*         "idle"      constructed, no call running                        *)
(*         "auth"      in the first _get_auth_token (user stream)          *)
(*         "connect"   awaiting ws.connect                                 *)
(*         "sleep"     in asyncio.sleep(self._current_backoff)             *)
(*         "refresh"   in _get_auth_token after a backoff (user stream)    *)
(*         "connected" the call returned the connected assistant          *)
(*         "raised"    the call raised                                     *)
(***************************************************************************)
Min(a, b) == IF a <= b THEN a ELSE b

\* What a connect error's lower-cased message contains of the three marks.
RateLimitMarks == {"429", "too many", "rate limit"}
ErrorMessages == SUBSET RateLimitMarks

\* A test that takes every connect failure for a rate-limit failure.
IsRateLimitError_Always(msg) == msg \subseteq RateLimitMarks

\* 'if "429" in error_msg or "too many" in error_msg or "rate limit" in error_msg'
IsRateLimitError(msg) ==
    "429" \in msg \/ "too many" \in msg \/ "rate limit" \in msg

\* "self._current_backoff = CONSTANTS.INITIAL_BACKOFF" after ws.connect returned
BackoffAfterConnect_Keep(b) == b
BackoffAfterConnect(b) == INITIAL_BACKOFF

\* A backoff that grows without the cap.
NextBackoff_Uncapped(b) == b * BACKOFF_MULTIPLIER

\* "min(self._current_backoff * CONSTANTS.BACKOFF_MULTIPLIER, CONSTANTS.MAX_BACKOFF)"
NextBackoff(b) == Min(b * BACKOFF_MULTIPLIER, MAX_BACKOFF)

\* No exception so far in the call.  An exception is recorded with the
\* operation that raised it, the marks in its message, and the backoff, the
\* connect attempts and the sleeps of the call as they were when it was raised.
NoError == [op |-> "none", msg |-> {}, backoff |-> 0, attempts |-> 0, sleeps |-> 0]

RaisedBy(op, msg, attempts) ==
    [op |-> op, msg |-> msg, backoff |-> current_backoff, attempts |-> attempts,
     sleeps |-> Len(waits)]

StreamInit ==
    /\ ws_failures = 0
    /\ ws_error = NoError
    /\ ws_pc = "unbuilt"
    /\ ws_private = FALSE
    /\ current_backoff = INITIAL_BACKOFF
    /\ auth_tokens = 0
    /\ ws_attempts = 0
    /\ ws_sessions = 0
    /\ waits = <<>>
    /\ prev_waits = <<>>
    /\ ws_tokens = 0
    /\ ws_subs = 0
    /\ hb_pc = "none"
    /\ hb_sleeps = 0
    /\ hb_pings = 0
    /\ hb_failed = FALSE
    /\ dl_pc = "get"

\* __init__ of the user stream (private) or order book (public) data source.
StreamConstruct(private) ==
    /\ ws_pc = "unbuilt"
    /\ ws_pc' = "idle"
    /\ ws_private' = private
    /\ current_backoff' = INITIAL_BACKOFF
    /\ UNCHANGED <<auth_tokens, ws_attempts, ws_sessions, waits, prev_waits,
                   ws_failures, ws_error, ws_tokens, sessionVars>>

\* The owner calls _connected_websocket_assistant (again after a return or a raise).
WsCall ==
    /\ ws_pc \in {"idle", "connected", "streaming", "raised"}
    /\ ws_sessions < MaxSessions
    /\ ws_sessions' = ws_sessions + 1
    /\ ws_attempts' = 0
    /\ ws_failures' = 0
    /\ ws_error' = NoError
    /\ ws_tokens' = 0
    /\ ws_subs' = 0
    /\ hb_pc' = "none"
    /\ hb_sleeps' = 0
    /\ hb_pings' = 0
    /\ hb_failed' = FALSE
    /\ ws_pc' = IF ws_private THEN "auth" ELSE "connect"
    /\ UNCHANGED <<ws_private, current_backoff, auth_tokens, waits, prev_waits, dl_pc>>

\* A loop that swallowed the exception of _get_auth_token and went on.
WsGetAuthToken_Retry(ok) ==
    /\ ws_pc \in {"auth", "refresh"}
    /\ auth_tokens' = IF ok THEN auth_tokens + 1 ELSE auth_tokens
    /\ ws_error' = IF ok THEN NoError ELSE RaisedBy("token", {}, ws_attempts)
    /\ ws_pc' = "connect"
    /\ ws_tokens' = IF ok THEN ws_tokens + 1 ELSE ws_tokens
    /\ UNCHANGED <<ws_private, current_backoff, ws_attempts, ws_sessions, waits,
                   prev_waits, ws_failures, sessionVars>>

\* "await self._get_auth_token()": create_auth_token returns or raises; the
\* call is outside the try block (first token) or inside the except handler
\* (refresh), so its exception leaves _connected_websocket_assistant.
WsGetAuthToken(ok) ==
    /\ ws_pc \in {"auth", "refresh"}
    /\ IF ok
       THEN /\ auth_tokens' = auth_tokens + 1
            /\ ws_error' = NoError
            /\ ws_pc' = "connect"
       ELSE /\ auth_tokens' = auth_tokens
            /\ ws_error' = RaisedBy("token", {}, ws_attempts)
            /\ ws_pc' = "raised"
    /\ ws_tokens' = IF ok THEN ws_tokens + 1 ELSE ws_tokens
    /\ UNCHANGED <<ws_private, current_backoff, ws_attempts, ws_sessions, waits,
                   prev_waits, ws_failures, sessionVars>>

\* ws.connect returned: the backoff is reset, the user stream starts its
\* _ping_thread task (the order book source has none), the assistant returned.
WsConnectOk ==
    /\ ws_pc = "connect"
    /\ ws_attempts' = ws_attempts + 1
    /\ current_backoff' = BackoffAfterConnect(current_backoff)
    /\ prev_waits' = waits
    /\ waits' = <<>>
    /\ ws_error' = NoError
    /\ ws_pc' = "connected"
    /\ hb_pc' = IF ws_private THEN "sleep" ELSE hb_pc
    /\ UNCHANGED <<ws_private, auth_tokens, ws_sessions, ws_failures, ws_tokens,
                   ws_subs, hb_sleeps, hb_pings, hb_failed, dl_pc>>

\* A loop that gives up after three rate-limited failures of a call.
WsConnectFail_Ceiling(msg) ==
    /\ ws_pc = "connect"
    /\ ws_attempts' = ws_attempts + 1
    /\ ws_error' = RaisedBy("connect", msg, ws_attempts + 1)
    /\ IF IsRateLimitError(msg) /\ ws_failures < 3
       THEN /\ Len(waits) < MaxFailures
            /\ waits' = Append(waits, current_backoff)
            /\ ws_failures' = ws_failures + 1
            /\ ws_pc' = "sleep"
       ELSE /\ waits' = waits
            /\ ws_failures' = ws_failures
            /\ ws_pc' = "raised"
    /\ UNCHANGED <<ws_private, current_backoff, auth_tokens, ws_sessions, prev_waits,
                   ws_tokens, sessionVars>>

\* ws.connect raised: a rate-limit error starts the backoff sleep, any other
\* error is re-raised.
WsConnectFail(msg) ==
    /\ ws_pc = "connect"
    /\ ws_attempts' = ws_attempts + 1
    /\ ws_error' = RaisedBy("connect", msg, ws_attempts + 1)
    /\ IF IsRateLimitError(msg)
       THEN /\ Len(waits) < MaxFailures
            /\ waits' = Append(waits, current_backoff)
            /\ ws_failures' = ws_failures + 1
            /\ ws_pc' = "sleep"
       ELSE /\ waits' = waits
            /\ ws_failures' = ws_failures
            /\ ws_pc' = "raised"
    /\ UNCHANGED <<ws_private, current_backoff, auth_tokens, ws_sessions, prev_waits,
                   ws_tokens, sessionVars>>

\* A loop that retries without a fresh token.
WsSleepDone_NoRefresh ==
    /\ ws_pc = "sleep"
    /\ current_backoff' = IF current_backoff * BACKOFF_MULTIPLIER < MAX_BACKOFF
                          THEN current_backoff * BACKOFF_MULTIPLIER ELSE MAX_BACKOFF
    /\ ws_pc' = "connect"
    /\ UNCHANGED <<ws_private, auth_tokens, ws_attempts, ws_sessions, waits,
                   prev_waits, ws_failures, ws_error, ws_tokens, sessionVars>>

\* The sleep ended: the backoff grows; the user stream refreshes its token.
WsSleepDone ==
    /\ ws_pc = "sleep"
    /\ current_backoff' = NextBackoff(current_backoff)
    /\ ws_pc' = IF ws_private THEN "refresh" ELSE "connect"
    /\ UNCHANGED <<ws_private, auth_tokens, ws_attempts, ws_sessions, waits,
                   prev_waits, ws_failures, ws_error, ws_tokens, sessionVars>>

StreamNext ==
    \/ \E private \in BOOLEAN : StreamConstruct(private)
    \/ WsCall
    \/ \E ok \in BOOLEAN : WsGetAuthToken(ok)
    \/ WsConnectOk
    \/ \E msg \in ErrorMessages : WsConnectFail(msg)
    \/ WsSleepDone

\* The reconnect loop against a transport that only ever refuses with a
\* rate-limit error, and a signer that always returns a token.
StreamLiveNext ==
    \/ \E private \in BOOLEAN : StreamConstruct(private)
    \/ WsCall
    \/ WsGetAuthToken(TRUE)
    \/ WsConnectOk
    \/ \E msg \in ErrorMessages : IsRateLimitError(msg) /\ WsConnectFail(msg)
    \/ WsSleepDone

(***************************************************************************)
(* The user stream session.  The owner (listen_for_user_stream of the      *)
(* hummingbot core) calls _connected_websocket_assistant and then          *)
(* _subscribe_channels on the assistant it got; the data source started    *)
(* its _ping_thread task when the connect returned; the connector's        *)
(* _user_stream_event_listener consumes what the stream queues.  A task    *)
(* that is cancelled gets asyncio.CancelledError at the await it is        *)
(* suspended in; what happens next is what its handlers do with it.        *)
(***************************************************************************)
USER_STREAM_SUBSCRIPTIONS == 2      \* orders, then fills

\* How a task ends once CancelledError is thrown into it: a handler that
\* breaks out of the loop makes the coroutine return normally; a handler that
\* re-raises, or no handler at all, leaves the task cancelled.
TaskEnd(handler) == IF handler = "break" THEN "returned" ELSE "cancelled"

\* listen_for_user_stream: the owner subscribes on the assistant that
\* _connected_websocket_assistant returned.
ListenSubscribes == ws_pc = "connected"

\* _subscribe_channels of the user stream: "sent" messages went out before a
\* send raised (the exception is logged and re-raised), or both went out.
WsSubscribe(sent) ==
    /\ ListenSubscribes
    /\ ws_private
    /\ ws_subs' = sent
    /\ IF sent = USER_STREAM_SUBSCRIPTIONS
       THEN ws_pc' = "streaming" /\ ws_error' = ws_error
       ELSE ws_pc' = "raised" /\ ws_error' = RaisedBy("subscribe", {}, ws_attempts)
    /\ UNCHANGED <<ws_private, current_backoff, auth_tokens, ws_attempts, ws_sessions,
                   waits, prev_waits, ws_failures, ws_tokens, hb_pc, hb_sleeps,
                   hb_pings, hb_failed, dl_pc>>

\* The owner's task is cancelled while _connected_websocket_assistant is
\* suspended in ws.connect or in the backoff sleep (_get_auth_token has no
\* await inside): "except Exception" does not catch CancelledError, so
\* nothing of the call runs after it.
WsCancelled ==
    /\ ws_pc \in {"connect", "sleep"}
    /\ ws_pc' = TaskEnd("uncaught")
    /\ UNCHANGED <<ws_private, current_backoff, auth_tokens, ws_attempts, ws_sessions,
                   waits, prev_waits, ws_failures, ws_error, ws_tokens, sessionVars>>

\* _ping_thread: "await asyncio.sleep(self.HEARTBEAT_TIME_INTERVAL)" returned.
HbSleepDone ==
    /\ hb_pc = "sleep"
    /\ hb_sleeps < MaxPings
    /\ hb_sleeps' = hb_sleeps + 1
    /\ hb_pc' = "send"
    /\ UNCHANGED <<streamVars, ws_subs, hb_pings, hb_failed, dl_pc>>

\* A heartbeat that goes on after a failed send.
HbSend_KeepGoing(ok) ==
    /\ hb_pc = "send"
    /\ hb_pings' = IF ok THEN hb_pings + 1 ELSE hb_pings
    /\ hb_failed' = (hb_failed \/ ~ok)
    /\ hb_pc' = "sleep"
    /\ UNCHANGED <<streamVars, ws_subs, hb_sleeps, dl_pc>>

\* _ping_thread: "await websocket_assistant.send(ping_request)" returned, and
\* the loop sleeps again, or raised, and the loop logs and breaks.
HbSend(ok) ==
    /\ hb_pc = "send"
    /\ hb_pings' = IF ok THEN hb_pings + 1 ELSE hb_pings
    /\ hb_failed' = (hb_failed \/ ~ok)
    /\ hb_pc' = IF ok THEN "sleep" ELSE "ended"
    /\ UNCHANGED <<streamVars, ws_subs, hb_sleeps, dl_pc>>

\* _ping_thread is cancelled in its sleep or in its send:
\* "except asyncio.CancelledError: break".
HbCancelled ==
    /\ hb_pc \in {"sleep", "send"}
    /\ hb_pc' = TaskEnd("break")
    /\ UNCHANGED <<streamVars, ws_subs, hb_sleeps, hb_pings, hb_failed, dl_pc>>

\* _user_stream_event_listener (perpetual connector): a message came out of
\* the queue; handling it went through, or raised, which is logged and
\* followed by "await self._sleep(5.0)".
DlMessage(ok) ==
    /\ dl_pc = "get"
    /\ ws_pc = "streaming"
    /\ dl_pc' = IF ok THEN "get" ELSE "sleep"
    /\ UNCHANGED <<streamVars, ws_subs, heartbeatVars>>

DlSleepDone ==
    /\ dl_pc = "sleep"
    /\ dl_pc' = "get"
    /\ UNCHANGED <<streamVars, ws_subs, heartbeatVars>>

\* The listener is cancelled in queue.get() or in its sleep:
\* "except asyncio.CancelledError: raise" in both places.
DlCancelled ==
    /\ dl_pc \in {"get", "sleep"}
    /\ dl_pc' = TaskEnd("raise")
    /\ UNCHANGED <<streamVars, ws_subs, heartbeatVars>>

SessionNext ==
    \/ StreamNext
    \/ \E sent \in 0..USER_STREAM_SUBSCRIPTIONS : WsSubscribe(sent)
    \/ WsCancelled
    \/ HbSleepDone
    \/ \E ok \in BOOLEAN : HbSend(ok)
    \/ HbCancelled
    \/ \E ok \in BOOLEAN : DlMessage(ok)
    \/ DlSleepDone
    \/ DlCancelled

(***************************************************************************)
(* Request throttler.  The rules are RATE_LIMITS of lighter_constants.py;  *)
(* the throttler class itself (AsyncThrottler) is modelled after the       *)
(* specification's RequestThrottler: acquire(rule_id) suspends until the   *)
(* rule and every pool linked to it have headroom, then reserves the       *)
(* weights in all of them at once for the length of the window.            *)
(***************************************************************************)
ALL_ENDPOINTS_LIMIT == "All"

Rule(id, limit, links) ==
    [limit_id |-> id, limit |-> limit, time_interval |-> TIME_INTERVAL,
     linked_limits |-> links]

OnAll(weight) == {<<ALL_ENDPOINTS_LIMIT, weight>>}

\* RATE_LIMITS, in the order of the source (several endpoints share a path).
RATE_LIMITS ==
    << Rule(ALL_ENDPOINTS_LIMIT, MAX_REQUEST_PER_MINUTE, {}),
       Rule("/api/v1/sendTx", SEND_TX_LIMIT, OnAll(WEIGHT_SEND_TX)),
       Rule("/api/v1/sendTx", SEND_TX_LIMIT, OnAll(WEIGHT_SEND_TX)),
       Rule("/api/v1/sendTxBatch", SEND_TX_LIMIT, OnAll(WEIGHT_SEND_TX)),
       Rule("/api/v1/nextNonce", SEND_TX_LIMIT, OnAll(WEIGHT_SEND_TX)),
       Rule("/api/v1/status", SINGLE_LIMIT, OnAll(WEIGHT_INFO)),
       Rule("/api/v1/orderBooks", SINGLE_LIMIT, OnAll(WEIGHT_PUBLIC_DATA)),
       Rule("/api/v1/orderBooks", SINGLE_LIMIT, OnAll(WEIGHT_PUBLIC_DATA)),
       Rule("/api/v1/account", SINGLE_LIMIT, OnAll(WEIGHT_ACCOUNT_DATA)),
       Rule("/api/v1/trades", SINGLE_LIMIT, OnAll(WEIGHT_ACCOUNT_DATA)),
       Rule("/api/v1/trades", SINGLE_LIMIT, OnAll(WEIGHT_ACCOUNT_DATA)),
       Rule("/api/v1/orderBookDetails", SINGLE_LIMIT, OnAll(WEIGHT_DEFAULT)),
       Rule("/api/v1/order", SINGLE_LIMIT, OnAll(WEIGHT_DEFAULT)) >>

LimitIds == {RATE_LIMITS[i].limit_id : i \in 1..Len(RATE_LIMITS)}
EndpointIds == LimitIds \ {ALL_ENDPOINTS_LIMIT}

\* The rule registered under an id (of equal ids the last one listed).
RuleTable ==
    [id \in LimitIds |->
        RATE_LIMITS[CHOOSE i \in 1..Len(RATE_LIMITS) :
                        /\ RATE_LIMITS[i].limit_id = id
                        /\ \A j \in 1..Len(RATE_LIMITS) :
                              RATE_LIMITS[j].limit_id = id => j <= i]]
RuleOf(id) == RuleTable[id]

\* The pools a request of rule id touches, and its weight on each.
Touched(id) == {id} \cup {l[1] : l \in RuleOf(id).linked_limits}
WeightTable ==
    [id \in LimitIds |-> [pool \in LimitIds |->
        IF pool = id THEN OWN_WEIGHT
        ELSE IF \E l \in RuleTable[id].linked_limits : l[1] = pool
             THEN (CHOOSE l \in RuleTable[id].linked_limits : l[1] = pool)[2]
             ELSE 0]]
WeightOn(id, pool) == WeightTable[id][pool]

TimePoints == {k * TickStep : k \in 0..MaxTicks}

RECURSIVE SumOver(_, _)
SumOver(f, S) ==
    IF S = {} THEN 0
    ELSE LET x == CHOOSE y \in S : TRUE
         IN f[x] + SumOver(f, S \ {x})

\* A reservation made at time t still counts at time at: its window has not elapsed.
InWindow_FixedBucket(pool, t, at) ==
    t <= at /\ (t \div RuleOf(pool).time_interval) = (at \div RuleOf(pool).time_interval)
InWindow(pool, t, at) == t <= at /\ at - t < RuleOf(pool).time_interval

\* The weight reserved in a pool at time at.
Used(pool, at) ==
    SumOver(charged[pool], {t \in TimePoints : InWindow(pool, t, at)})

\* Every pool the rule touches has headroom for the rule's weight on it.
WithinCapacity(id) ==
    \A pool \in Touched(id) :
        Used(pool, now) + WeightOn(id, pool) <= RuleOf(pool).limit

\* The pools an admission reserves in.
PoolsToCharge_OwnOnly(id) == {id}
PoolsToCharge(id) == Touched(id)

ThrottleInit ==
    /\ now = 0
    /\ charged = [p \in LimitIds |-> [t \in TimePoints |-> 0]]
    /\ admitted = [r \in LimitIds |-> [t \in TimePoints |-> 0]]
    /\ th_waiting = {}
    /\ th_requests = 0

\* A caller enters acquire(rule_id) (the path of a REST call).
ThrAcquire(id) ==
    /\ id \notin th_waiting
    /\ Cardinality(th_waiting) < MaxWaiting
    /\ th_requests < MaxRequests
    /\ th_requests' = th_requests + 1
    /\ th_waiting' = th_waiting \cup {id}
    /\ UNCHANGED <<now, charged, admitted>>

\* A suspended acquire() finds headroom everywhere and reserves it.
ThrAdmit(id) ==
    /\ id \in th_waiting
    /\ WithinCapacity(id)
    /\ charged' = [p \in LimitIds |->
                     IF p \in PoolsToCharge(id)
                     THEN [charged[p] EXCEPT ![now] = @ + WeightOn(id, p)]
                     ELSE charged[p]]
    /\ admitted' = [admitted EXCEPT ![id][now] = @ + 1]
    /\ th_waiting' = th_waiting \ {id}
    /\ UNCHANGED <<now, th_requests>>

\* Time passes.
ThrTick ==
    /\ now + TickStep \in TimePoints
    /\ now' = now + TickStep
    /\ UNCHANGED <<charged, admitted, th_waiting, th_requests>>

ThrottleNext ==
    \/ \E id \in EndpointIds : ThrAcquire(id)
    \/ \E id \in EndpointIds : ThrAdmit(id)
    \/ ThrTick

(***************************************************************************)
(* Orders.  The connectors (lighter_exchange.py, lighter_perpetual_        *)
(* derivative.py) feed self._order_tracker from REST responses and from    *)
(* user-stream messages.  The tracker itself (ClientOrderTracker,          *)
(* InFlightOrder) is modelled after the specification's OrderTracker.      *)
(* Amounts are in tenths; 0 stands for an absent id.                       *)
(***************************************************************************)
ClientIds == 1..NOrders
ClientIdInputs == 0..(NOrders + 1)
Timestamps == 0..MaxTs
ClockValues == 1..MaxTs
REQUESTED_AMOUNT == 10
\* the clock when the orders are placed
CREATION_TIMESTAMP == 1

\* the exchange's id for a client order, and the index sent in _place_order
ExchangeOrderId(o) == o + 10
ExchangeIds == {ExchangeOrderId(o) : o \in ClientIds}
ClientOrderIndex(o) == o + 100
ALIEN_EXCHANGE_ID == 99

\* the trades that exist on the exchange: which order, what size
TradeTable ==
    << [order_id |-> 11, size |-> 4],
       [order_id |-> 11, size |-> 6],
       [order_id |-> 12, size |-> 6] >>
TradeIds == DOMAIN TradeTable
\* a REST response lists one trade or two
TradeBatches ==
    {<<a>> : a \in TradeIds} \cup {<<a, b>> : a, b \in TradeIds}
RefOrder(t) == TradeTable[t].order_id - 10

TerminalStates == {"Filled", "Canceled", "Failed"}
LOST == "Lost"
DoneStates == TerminalStates \cup {LOST}

ORDER_STATE ==
    ("open" :> "Open") @@ ("pending" :> "PendingCreate") @@
    ("filled" :> "Filled") @@ ("partially_filled" :> "PartiallyFilled") @@
    ("canceled" :> "Canceled") @@ ("cancelled" :> "Canceled") @@
    ("rejected" :> "Failed") @@ ("expired" :> "Canceled") @@
    ("failed" :> "Failed")
ORDER_STATUS_MAP == ORDER_STATE
StatusInputs ==
    {"open", "partially_filled", "filled", "canceled", "rejected", "unknown"}

ORDER_NOT_EXIST_MESSAGE == "order not found"
CancelResults == {"ok", ORDER_NOT_EXIST_MESSAGE, "insufficient margin"}

NoOrder ==
    [placed |-> FALSE, creating |-> FALSE, state |-> "PendingCreate",
     exid |-> 0, amount |-> 0, filled |-> 0, fills |-> {}, ts |-> 0]

Max(a, b) == IF a > b THEN a ELSE b

(***************************************************************************)
(* The tracker.                                                            *)
(***************************************************************************)
start_tracking_order(tr, o, amount, ts) ==
    [tr EXCEPT ![o] = [placed |-> TRUE, creating |-> TRUE,
                       state |-> "PendingCreate", exid |-> 0,
                       amount |-> amount, filled |-> 0, fills |-> {},
                       ts |-> ts]]

\* An exchange order id that every update overwrites.
update_exchange_order_id_Overwrite(current, exid) == exid

\* once set, the exchange order id is immutable
update_exchange_order_id(current, exid) ==
    IF current = 0 THEN exid ELSE current

all_updatable_orders(tr) ==
    {o \in ClientIds : tr[o].placed /\ tr[o].state \notin DoneStates}

all_fillable_orders_WithLost(tr) ==
    {o \in ClientIds : tr[o].placed /\ tr[o].state \notin TerminalStates}

all_fillable_orders(tr) ==
    {o \in ClientIds : tr[o].placed /\ tr[o].state \notin DoneStates}

\* .get(exchange_order_id) on the dict keyed by exchange order id
all_fillable_orders_by_exchange_order_id(tr, exid) ==
    LET S == {o \in all_fillable_orders(tr) : exid # 0 /\ tr[o].exid = exid}
    IN  IF S = {} THEN 0 ELSE CHOOSE o \in S : \A p \in S : p <= o

\* the orders an update may still address: terminal ones are kept so that
\* a late update is recognised and refused; lost ones are untracked
KnownOrders(tr) ==
    {o \in ClientIds : tr[o].placed /\ tr[o].state # LOST}

LocateOrder(tr, upd) ==
    IF upd.client_order_id # 0
    THEN IF upd.client_order_id \in KnownOrders(tr)
         THEN upd.client_order_id ELSE 0
    ELSE LET S == {o \in KnownOrders(tr) :
                     upd.exchange_order_id # 0
                     /\ tr[o].exid = upd.exchange_order_id}
         IN  IF S = {} THEN 0 ELSE CHOOSE o \in S : \A p \in S : p <= o

NeverRegress_Off(state) == FALSE

\* terminal states never regress
NeverRegress(state) == state \in TerminalStates

IsStale(order, upd) ==
    /\ upd.new_state \notin TerminalStates
    /\ upd.update_timestamp < order.ts

process_order_update(tr, upd) ==
    LET o == LocateOrder(tr, upd)
    IN  IF o = 0 THEN tr
        ELSE IF NeverRegress(tr[o].state) THEN tr
        ELSE IF IsStale(tr[o], upd) THEN tr
        ELSE [tr EXCEPT
                ![o].state = upd.new_state,
                ![o].ts = Max(@, upd.update_timestamp),
                ![o].exid = update_exchange_order_id(@, upd.exchange_order_id)]

process_trade_update(tr, fill) ==
    LET o == all_fillable_orders_by_exchange_order_id(tr, fill.exchange_order_id)
    IN  IF o = 0 THEN tr
        ELSE IF fill.trade_id \in tr[o].fills THEN tr
        ELSE LET f == tr[o].filled + fill.fill_base_amount
             IN  [tr EXCEPT
                    ![o].fills = @ \cup {fill.trade_id},
                    ![o].filled = f,
                    ![o].state = IF f = tr[o].amount THEN "Filled"
                                 ELSE "PartiallyFilled"]

process_order_not_found(tr, cid) ==
    IF cid \in all_updatable_orders(tr)
    THEN [tr EXCEPT ![cid].state = LOST]
    ELSE tr

OrderUpdate(cid, exid, state, ts) ==
    [client_order_id |-> cid, exchange_order_id |-> exid,
     new_state |-> state, update_timestamp |-> ts]

TradeUpdate(tid, cid, exid, size) ==
    [trade_id |-> tid, client_order_id |-> cid,
     exchange_order_id |-> exid, fill_base_amount |-> size]

(***************************************************************************)
(* Perpetual connector (lighter_perpetual_derivative.py).                  *)
(***************************************************************************)
PerpTradeMsg(t) ==
    [trade_id |-> t, order_id |-> TradeTable[t].order_id,
     size |-> TradeTable[t].size]

\* an exchange order id belongs to one order: a message about a client
\* order carries that order's exchange id, or one this connector never saw
PerpOrderMsgs ==
    {m \in [client_order_id : ClientIdInputs,
            order_id : ExchangeIds \cup {ALIEN_EXCHANGE_ID},
            status : StatusInputs, updated_at : ClockValues] :
        m.client_order_id \in ClientIds =>
            m.order_id \in {ExchangeOrderId(m.client_order_id),
                            ALIEN_EXCHANGE_ID}}

PerpStatusResponses ==
    [order_id : ExchangeIds \cup {ALIEN_EXCHANGE_ID},
     status : StatusInputs, updated_at : ClockValues]

\* ORDER_STATUS_MAP.get(current_state, current_state)
PerpState(status) ==
    IF status \in DOMAIN ORDER_STATUS_MAP THEN ORDER_STATUS_MAP[status]
    ELSE status

PerpRestTradeId_PerChannel(trade) == trade.trade_id + 100

\* trade_id=str(trade["trade_id"])
PerpRestTradeId(trade) == trade.trade_id

PerpRestExchangeOrderId_Absent(trade) == 0

\* exchange_order_id = str(trade.get("order_id"))
PerpRestExchangeOrderId(trade) == trade.order_id

\* _process_trade_event_message: one trade of a REST trade-history response
Perp_process_trade_event_message(tr, trade) ==
    LET exchange_order_id == PerpRestExchangeOrderId(trade)
        fillable_order ==
            all_fillable_orders_by_exchange_order_id(tr, exchange_order_id)
    IN  IF fillable_order # 0
        THEN process_trade_update(tr,
                 TradeUpdate(PerpRestTradeId(trade), fillable_order,
                             exchange_order_id, trade.size))
        ELSE tr

\* _process_trade_message: a trade pushed on the user stream
Perp_process_trade_message(tr, trade) ==
    LET exchange_order_id == trade.order_id
        tracked_order ==
            all_fillable_orders_by_exchange_order_id(tr, exchange_order_id)
    IN  IF tracked_order = 0 THEN tr
        ELSE process_trade_update(tr,
                 TradeUpdate(trade.trade_id, tracked_order,
                             exchange_order_id, trade.size))

\* A handler that starts tracking the order of a message it does not know.
Perp_process_order_message_Adopt(tr, msg) ==
    LET cid == msg.client_order_id
    IN  IF cid \notin ClientIds THEN tr
        ELSE IF ~tr[cid].placed
        THEN [tr EXCEPT ![cid] = [NoOrder EXCEPT !.placed = TRUE,
                                                 !.state = PerpState(msg.status),
                                                 !.exid = msg.order_id]]
        ELSE tr

\* _process_order_message: an order update pushed on the user stream
Perp_process_order_message(tr, msg) ==
    LET cid == msg.client_order_id
    IN  IF cid = 0 THEN tr
        ELSE IF cid \notin all_updatable_orders(tr) THEN tr
        ELSE LET tr1 == [tr EXCEPT ![cid].exid =
                            update_exchange_order_id(@, msg.order_id)]
             IN  process_order_update(tr1,
                     OrderUpdate(cid, msg.order_id, PerpState(msg.status),
                                 msg.updated_at))

\* _request_order_status, whose OrderUpdate the polling loop applies
Perp_request_order_status(tr, o, resp) ==
    process_order_update(tr,
        OrderUpdate(o, resp.order_id, PerpState(resp.status), resp.updated_at))

\* _place_cancel; a cancel that returned True is recorded as Canceled
Perp_place_cancel(tr, o, result, ts) ==
    IF result = "ok"
    THEN process_order_update(tr, OrderUpdate(o, tr[o].exid, "Canceled", ts))
    ELSE process_order_not_found(tr, o)

(***************************************************************************)
(* Spot connector (lighter_exchange.py).                                   *)
(***************************************************************************)
SpotTradeMsg(t) ==
    [trade_id |-> t, order_index |-> TradeTable[t].order_id,
     size |-> TradeTable[t].size]

SpotOrderMsgs ==
    [client_order_index : {ClientOrderIndex(o) : o \in ClientIds},
     order_index : ExchangeIds, status : StatusInputs, timestamp : Timestamps]

SpotStatusResponses == [status : StatusInputs, timestamp : Timestamps]

\* ORDER_STATE.get(order_status, tracked_order.current_state)
SpotState(status, current_state) ==
    IF status \in DOMAIN ORDER_STATE THEN ORDER_STATE[status]
    ELSE current_state

\* hasattr(order, 'client_order_index'): a tracked order has no such field
HasClientOrderIndex(order) == FALSE

\* _parse_trade_update(trade_data, order)
Spot_parse_trade_update(trade_data, o, order) ==
    TradeUpdate(trade_data.trade_id, o, order.exid, trade_data.size)

\* _process_order_message
Spot_process_order_message(tr, msg) ==
    LET S == {o \in all_updatable_orders(tr) :
                 /\ HasClientOrderIndex(tr[o])
                 /\ ClientOrderIndex(o) = msg.client_order_index}
    IN  IF S = {} THEN tr
        ELSE LET o == CHOOSE p \in S : \A q \in S : p <= q
             IN  process_order_update(tr,
                     OrderUpdate(o, msg.order_index,
                                 SpotState(msg.status, tr[o].state),
                                 msg.timestamp))

\* _process_trade_message
Spot_process_trade_message(tr, msg) ==
    LET tracked_order ==
            all_fillable_orders_by_exchange_order_id(tr, msg.order_index)
    IN  IF tracked_order = 0 THEN tr
        ELSE process_trade_update(tr,
                 Spot_parse_trade_update(msg, tracked_order, tr[tracked_order]))

\* _request_order_status, whose OrderUpdate the polling loop applies
Spot_request_order_status(tr, o, resp) ==
    process_order_update(tr,
        OrderUpdate(o, tr[o].exid, SpotState(resp.status, tr[o].state),
                    resp.timestamp))

\* "order not found" in the error message of a cancel response
IsOrderNotExist(msg) == msg = ORDER_NOT_EXIST_MESSAGE

\* _place_cancel; a cancel that returned True is recorded as Canceled
Spot_place_cancel(tr, o, result, ts) ==
    IF result # "ok"
    THEN IF IsOrderNotExist(result) THEN process_order_not_found(tr, o)
         ELSE tr
    ELSE process_order_update(tr, OrderUpdate(o, tr[o].exid, "Canceled", ts))

(***************************************************************************)
(* History kept for the order claims.                                      *)
(*   oghost[o].term        first state of DoneStates the order reached     *)
(*   oghost[o].late_open   an update reporting Open arrived after Canceled *)
(*   oghost[o].nf_from     state in which process_order_not_found was      *)
(*                         first called for the order                      *)
(*   oghost[o].lost_filled, lost_fills  filled_amount and fill set when    *)
(*                         the order became lost                           *)
(*   oghost[o].late_fill   a fill for the order arrived after it was lost  *)
(*   fed[t]      channels that delivered trade t to an order the tracker   *)
(*               knew by its exchange id and that was in flight on first   *)
(*               delivery, each channel once, in the order of their first  *)
(*               delivery                                                  *)
(*   applied[t]  how often a delivery of t changed filled_amount           *)
(***************************************************************************)
NoHistory ==
    [term |-> "none", late_open |-> FALSE, nf_from |-> "none",
     lost_filled |-> 0, lost_fills |-> {}, late_fill |-> FALSE]

Observe(og, tr, tr2, opens, nfs, lates) ==
    [o \in ClientIds |->
        [term |-> IF og[o].term = "none" /\ tr2[o].state \in DoneStates
                  THEN tr2[o].state ELSE og[o].term,
         late_open |-> og[o].late_open \/ o \in opens,
         nf_from |-> IF og[o].nf_from = "none" /\ o \in nfs
                     THEN tr[o].state ELSE og[o].nf_from,
         lost_filled |-> IF tr[o].state # LOST /\ tr2[o].state = LOST
                         THEN tr2[o].filled ELSE og[o].lost_filled,
         lost_fills |-> IF tr[o].state # LOST /\ tr2[o].state = LOST
                        THEN tr2[o].fills ELSE og[o].lost_fills,
         late_fill |-> og[o].late_fill \/ o \in lates]]

RecordTrade(st, tr2, t, ch) ==
    LET o == RefOrder(t)
        known == st.tr[o].placed /\ st.tr[o].exid = TradeTable[t].order_id
        live == known /\ st.tr[o].state \notin DoneStates
    IN  [tr |-> tr2,
         fed |-> IF (live \/ (known /\ st.fed[t] # <<>>))
                    /\ \A i \in DOMAIN st.fed[t] : st.fed[t][i] # ch
                 THEN [st.fed EXCEPT ![t] = Append(@, ch)] ELSE st.fed,
         applied |-> IF tr2[o].filled # st.tr[o].filled
                     THEN [st.applied EXCEPT ![t] = @ + 1] ELSE st.applied,
         late |-> IF known /\ st.tr[o].state = LOST
                  THEN st.late \cup {o} ELSE st.late]

\* the handler that receives trade t: by connector and channel; the spot
\* REST path parses the trades returned for the order o it asked about
HandleTrade(tr, t, ch, o) ==
    IF conn = "perp"
    THEN IF ch = "rest"
         THEN Perp_process_trade_event_message(tr, PerpTradeMsg(t))
         ELSE Perp_process_trade_message(tr, PerpTradeMsg(t))
    ELSE IF ch = "rest"
         THEN process_trade_update(tr,
                  Spot_parse_trade_update(SpotTradeMsg(t), o, tr[o]))
         ELSE Spot_process_trade_message(tr, SpotTradeMsg(t))

RECURSIVE FoldTrades(_, _, _, _)
FoldTrades(st, batch, ch, o) ==
    IF batch = <<>> THEN st
    ELSE FoldTrades(
             RecordTrade(st, HandleTrade(st.tr, Head(batch), ch, o),
                         Head(batch), ch),
             Tail(batch), ch, o)

TradeState == [tr |-> order_tracker, fed |-> fed, applied |-> applied, late |-> {}]

LateOpen(o, state) ==
    IF o \in ClientIds /\ state = "Open" /\ order_tracker[o].state = "Canceled"
    THEN {o} ELSE {}

CanStep == conn # "unbuilt" /\ order_steps < MaxOrderSteps

CommitOrders(tr2, opens, nfs) ==
    /\ order_tracker' = tr2
    /\ order_steps' = order_steps + 1
    /\ oghost' = Observe(oghost, order_tracker, tr2, opens, nfs, {})
    /\ UNCHANGED <<conn, fed, applied>>

CommitTrades(st) ==
    /\ order_tracker' = st.tr
    /\ order_steps' = order_steps + 1
    /\ oghost' = Observe(oghost, order_tracker, st.tr, {}, {}, st.late)
    /\ fed' = st.fed
    /\ applied' = st.applied
    /\ UNCHANGED conn

OrderInit ==
    /\ conn = "unbuilt"
    /\ order_tracker = [o \in ClientIds |-> NoOrder]
    /\ order_steps = 0
    /\ oghost = [o \in ClientIds |-> NoHistory]
    /\ fed = [t \in TradeIds |-> <<>>]
    /\ applied = [t \in TradeIds |-> 0]

(***************************************************************************)
(* Actions on orders.                                                      *)
(***************************************************************************)
\* LighterExchange(...) or LighterPerpetualDerivative(...)
OrdConstruct(c) ==
    /\ conn = "unbuilt"
    /\ conn' = c
    /\ UNCHANGED <<order_tracker, order_steps, oghost, fed, applied>>

\* buy()/sell(): the order is tracked, its creation is submitted
OrdPlace(o) ==
    /\ CanStep
    /\ ~order_tracker[o].placed
    /\ CommitOrders(start_tracking_order(order_tracker, o, REQUESTED_AMOUNT,
                                         CREATION_TIMESTAMP),
                    {}, {})

\* _place_order returned (exchange_order_id, timestamp)
OrdCreateResolved(o, ts) ==
    /\ CanStep
    /\ order_tracker[o].creating
    /\ LET tr1 == [order_tracker EXCEPT ![o].creating = FALSE]
       IN  CommitOrders(
               process_order_update(tr1,
                   OrderUpdate(o, ExchangeOrderId(o), "Open", ts)),
               LateOpen(o, "Open"), {})

\* _place_order raised IOError: the response had status "error"
OrdCreateFailed(o, ts) ==
    /\ CanStep
    /\ order_tracker[o].creating
    /\ LET tr1 == [order_tracker EXCEPT ![o].creating = FALSE]
       IN  CommitOrders(
               process_order_update(tr1, OrderUpdate(o, 0, "Failed", ts)),
               {}, {})

PerpUpdateTradeHistory(batch) ==
    /\ CanStep /\ conn = "perp"
    /\ all_fillable_orders(order_tracker) # {}
    /\ CommitTrades(FoldTrades(TradeState, batch, "rest", 0))

PerpWsTrade(t) ==
    /\ CanStep /\ conn = "perp"
    /\ CommitTrades(FoldTrades(TradeState, <<t>>, "ws", 0))

PerpWsOrder(msg) ==
    /\ CanStep /\ conn = "perp"
    /\ CommitOrders(Perp_process_order_message(order_tracker, msg),
                    LateOpen(msg.client_order_id, PerpState(msg.status)), {})

PerpRequestOrderStatus(o, resp) ==
    /\ CanStep /\ conn = "perp"
    /\ order_tracker[o].placed
    /\ order_tracker[o].exid # 0
    /\ resp.order_id \in {ExchangeOrderId(o), ALIEN_EXCHANGE_ID}
    /\ CommitOrders(Perp_request_order_status(order_tracker, o, resp),
                    LateOpen(o, PerpState(resp.status)), {})

PerpPlaceCancel(o, result, ts) ==
    /\ CanStep /\ conn = "perp"
    /\ o \in all_updatable_orders(order_tracker)
    /\ CommitOrders(Perp_place_cancel(order_tracker, o, result, ts),
                    {}, IF result = "ok" THEN {} ELSE {o})

SpotAllTradeUpdatesForOrder(o, batch) ==
    /\ CanStep /\ conn = "spot"
    /\ order_tracker[o].placed
    /\ order_tracker[o].exid # 0
    /\ \A i \in DOMAIN batch :
           TradeTable[batch[i]].order_id = order_tracker[o].exid
    /\ CommitTrades(FoldTrades(TradeState, batch, "rest", o))

SpotWsTrade(t) ==
    /\ CanStep /\ conn = "spot"
    /\ CommitTrades(FoldTrades(TradeState, <<t>>, "ws", 0))

SpotWsOrder(msg) ==
    /\ CanStep /\ conn = "spot"
    /\ CommitOrders(Spot_process_order_message(order_tracker, msg),
                    LateOpen(msg.client_order_index - 100,
                             SpotState(msg.status, "unknown")), {})

SpotRequestOrderStatus(o, resp) ==
    /\ CanStep /\ conn = "spot"
    /\ order_tracker[o].placed
    /\ CommitOrders(Spot_request_order_status(order_tracker, o, resp),
                    LateOpen(o, SpotState(resp.status, "unknown")), {})

SpotPlaceCancel(o, result, ts) ==
    /\ CanStep /\ conn = "spot"
    /\ o \in all_updatable_orders(order_tracker)
    /\ CommitOrders(Spot_place_cancel(order_tracker, o, result, ts),
                    {}, IF IsOrderNotExist(result) THEN {o} ELSE {})

OrderNext ==
    \/ \E c \in {"spot", "perp"} : OrdConstruct(c)
    \/ \E o \in ClientIds : OrdPlace(o)
    \/ \E o \in ClientIds, ts \in ClockValues : OrdCreateResolved(o, ts)
    \/ \E o \in ClientIds, ts \in ClockValues : OrdCreateFailed(o, ts)
    \/ \E batch \in TradeBatches : PerpUpdateTradeHistory(batch)
    \/ \E t \in TradeIds : PerpWsTrade(t)
    \/ \E msg \in PerpOrderMsgs : PerpWsOrder(msg)
    \/ \E o \in ClientIds, resp \in PerpStatusResponses :
           PerpRequestOrderStatus(o, resp)
    \/ \E o \in ClientIds, result \in CancelResults, ts \in ClockValues :
           PerpPlaceCancel(o, result, ts)
    \/ \E o \in ClientIds, batch \in TradeBatches :
           SpotAllTradeUpdatesForOrder(o, batch)
    \/ \E t \in TradeIds : SpotWsTrade(t)
    \/ \E msg \in SpotOrderMsgs : SpotWsOrder(msg)
    \/ \E o \in ClientIds, resp \in SpotStatusResponses :
           SpotRequestOrderStatus(o, resp)
    \/ \E o \in ClientIds, result \in CancelResults, ts \in ClockValues :
           SpotPlaceCancel(o, result, ts)

(***************************************************************************)
(* The same actions with a record of the last input: what it referred to   *)
(*   "unknown_order"  an order message for a client id that is not tracked *)
(*   "unknown_trade"  a fill whose exchange order id no tracked order has  *)
(*   "other_exid"     a message or response for a tracked order whose      *)
(*                    exchange id is known, carrying a different one       *)
(*   "cancel_not_found", "cancel_other"  the answer of a failed cancel     *)
(* and what it did: whether the tracker changed (kept for the first three  *)
(* kinds), and whether the order became lost.                              *)
(***************************************************************************)
NoAudit == [kind |-> "none", changed |-> FALSE, lost |-> FALSE]

\* an input about a tracked order with nothing to note leaves no record
Audit(kind, o) ==
    LET lost == /\ o \in ClientIds
                /\ order_tracker'[o].state = LOST
                /\ order_tracker[o].state # LOST
    IN  IF kind = "tracked" /\ ~lost THEN NoAudit
        ELSE [kind |-> kind,
              changed |-> /\ kind \in {"unknown_order", "unknown_trade",
                                       "other_exid"}
                          /\ order_tracker' # order_tracker,
              lost |-> lost]

OrderRefKind(cid, exid) ==
    IF cid \notin ClientIds \/ ~order_tracker[cid].placed THEN "unknown_order"
    ELSE IF order_tracker[cid].exid \notin {0, exid} THEN "other_exid"
    ELSE "tracked"

TradeRefKind(t) ==
    IF \E o \in ClientIds : /\ order_tracker[o].placed
                            /\ order_tracker[o].exid = TradeTable[t].order_id
    THEN "tracked" ELSE "unknown_trade"

CancelKind(result) ==
    IF result = "ok" THEN "tracked"
    ELSE IF result = ORDER_NOT_EXIST_MESSAGE THEN "cancel_not_found"
    ELSE "cancel_other"

OrderAuditNext ==
    /\ order_steps < MaxAuditSteps
    /\ \/ \E msg \in PerpOrderMsgs :
              /\ PerpWsOrder(msg)
              /\ olast' = Audit(OrderRefKind(msg.client_order_id, msg.order_id),
                                msg.client_order_id)
       \/ \E o \in ClientIds, resp \in PerpStatusResponses :
              /\ PerpRequestOrderStatus(o, resp)
              /\ olast' = Audit(OrderRefKind(o, resp.order_id), o)
       \/ \E msg \in SpotOrderMsgs :
              /\ SpotWsOrder(msg)
              /\ olast' = Audit(OrderRefKind(msg.client_order_index - 100,
                                             msg.order_index),
                                msg.client_order_index - 100)
       \/ \E t \in TradeIds :
              /\ PerpWsTrade(t) \/ SpotWsTrade(t)
              /\ olast' = Audit(TradeRefKind(t), 0)
       \/ \E o \in ClientIds, result \in CancelResults, ts \in ClockValues :
              /\ PerpPlaceCancel(o, result, ts) \/ SpotPlaceCancel(o, result, ts)
              /\ olast' = Audit(CancelKind(result), o)
       \/ /\ \/ \E c \in {"spot", "perp"} : OrdConstruct(c)
             \/ \E o \in ClientIds : OrdPlace(o)
             \/ \E o \in ClientIds, ts \in ClockValues : OrdCreateResolved(o, ts)
             \/ \E o \in ClientIds, ts \in ClockValues : OrdCreateFailed(o, ts)
             \/ \E batch \in TradeBatches : PerpUpdateTradeHistory(batch)
             \/ \E o \in ClientIds, batch \in TradeBatches :
                    SpotAllTradeUpdatesForOrder(o, batch)
             \/ \E o \in ClientIds, resp \in SpotStatusResponses :
                    SpotRequestOrderStatus(o, resp)
          /\ olast' = NoAudit

(***************************************************************************)
(* The same operations with olast recording the last order update that     *)
(* was delivered: through which path, for which tracked order, how the     *)
(* order was matched, what the update said and how the order stood before. *)
(***************************************************************************)
UpdateAudit(via, matched, o, new_state, ts) ==
    IF o \notin ClientIds \/ ~order_tracker[o].placed THEN NoAudit
    ELSE [kind |-> "update", via |-> via, matched |-> matched, o |-> o,
          new_state |-> new_state, ts |-> ts,
          pre_state |-> order_tracker[o].state, pre_ts |-> order_tracker[o].ts]

\* the tracked order a pushed order message is about: the one with its client
\* order id or, when the message has none, the one with its exchange order id
PerpMsgOrder(msg) ==
    IF msg.client_order_id # 0 THEN msg.client_order_id
    ELSE LocateOrder(order_tracker,
                     OrderUpdate(0, msg.order_id, PerpState(msg.status),
                                 msg.updated_at))

SpotMsgOrder(msg) == msg.client_order_index - 100

OrderUpdateNext ==
    /\ order_steps < MaxAuditSteps
    /\ \/ \E msg \in PerpOrderMsgs :
              /\ PerpWsOrder(msg)
              /\ olast' = UpdateAudit("perp_ws",
                              IF msg.client_order_id # 0 THEN "client_id"
                              ELSE "exchange_id",
                              PerpMsgOrder(msg), PerpState(msg.status),
                              msg.updated_at)
       \/ \E o \in ClientIds, resp \in PerpStatusResponses :
              /\ PerpRequestOrderStatus(o, resp)
              /\ olast' = UpdateAudit("perp_rest", "client_id", o,
                                      PerpState(resp.status), resp.updated_at)
       \/ \E msg \in SpotOrderMsgs :
              /\ SpotWsOrder(msg)
              /\ olast' = UpdateAudit("spot_ws", "client_id", SpotMsgOrder(msg),
                              SpotState(msg.status,
                                        order_tracker[SpotMsgOrder(msg)].state),
                              msg.timestamp)
       \/ \E o \in ClientIds, resp \in SpotStatusResponses :
              /\ SpotRequestOrderStatus(o, resp)
              /\ olast' = UpdateAudit("spot_rest", "client_id", o,
                              SpotState(resp.status, order_tracker[o].state),
                              resp.timestamp)
       \/ /\ \/ \E c \in {"spot", "perp"} : OrdConstruct(c)
             \/ \E o \in ClientIds : OrdPlace(o)
             \/ \E o \in ClientIds, ts \in ClockValues : OrdCreateResolved(o, ts)
             \/ \E o \in ClientIds, ts \in ClockValues : OrdCreateFailed(o, ts)
             \/ \E t \in TradeIds : PerpWsTrade(t) \/ SpotWsTrade(t)
             \/ \E o \in ClientIds, result \in CancelResults, ts \in ClockValues :
                    PerpPlaceCancel(o, result, ts) \/ SpotPlaceCancel(o, result, ts)
          /\ olast' = NoAudit

(***************************************************************************)
(* LighterAuth: the cached auth token and the signing of POST requests.    *)
(* A token is a positive number (the n-th token the signer created, or     *)
(* one handed to set_auth_token); 0 stands for None.  URLs and the         *)
(* substrings searched in them are sequences of characters.                *)
(***************************************************************************)
CREATE_ORDER_URL == <<"/", "a", "p", "i", "/", "v", "1", "/", "s", "e", "n", "d", "T", "x">>
CANCEL_ALL_ORDERS_URL == <<"/", "a", "p", "i", "/", "v", "1", "/", "s", "e", "n", "d", "T", "x", "B", "a", "t", "c", "h">>
ORDER_URL == <<"/", "a", "p", "i", "/", "v", "1", "/", "o", "r", "d", "e", "r">>
SEND_TX_MARK == <<"/", "s", "e", "n", "d", "T", "x">>
SEND_TX_BATCH_MARK == <<"/", "s", "e", "n", "d", "T", "x", "B", "a", "t", "c", "h">>

\* sub in s, for strings
Contains(sub, s) ==
    \E i \in 1..(Len(s) - Len(sub) + 1) :
        SubSeq(s, i, i + Len(sub) - 1) = sub

RequestUrls == {CREATE_ORDER_URL, CANCEL_ALL_ORDERS_URL, ORDER_URL}
RESTMethods == {"GET", "POST"}
\* the keys of request_params: a create-order, a cancel-order, a cancel-all,
\* one with half of the create-order keys, and an empty one
RequestParams ==
    { {"market_id", "base_amount", "time_in_force"},
      {"order_index", "market_id"},
      {"time_in_force"},
      {"market_id", "time_in_force"},
      {} }
TtlValues == 1..MaxTtl
EXTERNAL_TOKEN == 90

\* if self._auth_token and time.time() < self._auth_token_expiry
TokenUsable_AtExpiry(token, expiry, t) == token # 0 /\ t <= expiry
TokenUsable(token, expiry, t) == token # 0 /\ t < expiry

\* the Authorization header the request leaves with (0: none)
AuthorizationHeader(token, expiry, t) ==
    IF TokenUsable(token, expiry, t) THEN token ELSE 0

NoPayload == [kind |-> "none", signer |-> "none", nonce |-> 0, tx |-> {}]

\* _sign_create_order_params, _sign_cancel_order_params,
\* _sign_cancel_all_orders_params: the signer's transaction for the nonce
SignedPayload(signer, params, nonce) ==
    [kind |-> "signed", signer |-> signer, nonce |-> nonce, tx |-> params]

DefaultPayload_StaleNonce(params, nonce) ==
    [kind |-> "wrapper", signer |-> "none", nonce |-> nonce - 1, tx |-> params]

\* payload = {"tx": request_params, "nonce": nonce}
DefaultPayload(params, nonce) ==
    [kind |-> "wrapper", signer |-> "none", nonce |-> nonce, tx |-> params]

\* add_auth_to_params_post, after nonce = self.get_next_nonce()
add_auth_to_params_post(params, url, nonce) ==
    IF Contains(SEND_TX_MARK, url)
    THEN IF "market_id" \in params /\ "base_amount" \in params
         THEN SignedPayload("create_order", params, nonce)
         ELSE IF "order_index" \in params
         THEN SignedPayload("cancel_order", params, nonce)
         ELSE DefaultPayload(params, nonce)
    ELSE IF Contains(SEND_TX_BATCH_MARK, url)
    THEN SignedPayload("cancel_all", params, nonce)
    ELSE [kind |-> "plain", signer |-> "none", nonce |-> 0, tx |-> params]

NoAuthOp ==
    [op |-> "none", at |-> 0, had_token |-> 0, had_expiry |-> 0,
     header |-> 0, method |-> "GET", url |-> <<>>, params |-> {},
     nonce |-> 0, payload |-> NoPayload, signer_called |-> FALSE,
     ttl |-> 0, ret |-> 0]

AuthInit ==
    /\ auth_token = 0
    /\ auth_token_expiry = 0
    /\ auth_clock = 0
    /\ signer_calls = 0
    /\ auth_ops = 0
    /\ auth_last = NoAuthOp

\* what every operation records: when it ran and what the cache held
AuthOp(op) ==
    [NoAuthOp EXCEPT !.op = op, !.at = auth_clock,
                     !.had_token = auth_token,
                     !.had_expiry = auth_token_expiry]

\* time.time() advances
AuthTick ==
    /\ auth_clock < MaxAuthClock
    /\ auth_clock' = auth_clock + 1
    /\ UNCHANGED <<auth_token, auth_token_expiry, signer_calls, auth_ops,
                   auth_last, nonce_last>>

\* rest_authenticate(request)
RestAuthenticate(method, url, params) ==
    /\ auth_ops < MaxAuthOps
    /\ auth_ops' = auth_ops + 1
    /\ LET header == AuthorizationHeader(auth_token, auth_token_expiry, auth_clock)
           nonce == nonce_last + 1
       IN  IF method = "POST"
           THEN /\ nonce_last' = nonce
                /\ auth_last' = [AuthOp("rest") EXCEPT
                       !.header = header, !.method = method, !.url = url,
                       !.params = params, !.nonce = nonce,
                       !.payload = add_auth_to_params_post(params, url, nonce)]
           ELSE /\ UNCHANGED nonce_last
                /\ auth_last' = [AuthOp("rest") EXCEPT
                       !.header = header, !.method = method, !.url = url,
                       !.params = params]
    /\ UNCHANGED <<auth_token, auth_token_expiry, auth_clock, signer_calls>>

\* ws_authenticate(request)
WsAuthenticate ==
    /\ auth_ops < MaxAuthOps
    /\ auth_ops' = auth_ops + 1
    /\ auth_last' = [AuthOp("ws") EXCEPT
           !.header = AuthorizationHeader(auth_token, auth_token_expiry,
                                          auth_clock)]
    /\ UNCHANGED <<auth_token, auth_token_expiry, auth_clock, signer_calls,
                   nonce_last>>

\* set_auth_token(token, expiry_seconds)
SetAuthToken(token, ttl) ==
    /\ auth_ops < MaxAuthOps
    /\ auth_ops' = auth_ops + 1
    /\ auth_token' = token
    /\ auth_token_expiry' = auth_clock + ttl
    /\ auth_last' = [AuthOp("set") EXCEPT !.ttl = ttl, !.ret = token]
    /\ UNCHANGED <<auth_clock, signer_calls, nonce_last>>

\* create_auth_token(expiry_seconds): the signer is asked, the result cached
CreateAuthToken(ttl) ==
    /\ auth_ops < MaxAuthOps
    /\ auth_ops' = auth_ops + 1
    /\ signer_calls' = signer_calls + 1
    /\ auth_token' = signer_calls + 1
    /\ auth_token_expiry' = auth_clock + ttl
    /\ auth_last' = [AuthOp("create") EXCEPT
           !.signer_called = TRUE, !.ttl = ttl, !.ret = signer_calls + 1]
    /\ UNCHANGED <<auth_clock, nonce_last>>

AuthNext ==
    \/ AuthTick
    \/ \E method \in RESTMethods, url \in RequestUrls, params \in RequestParams :
           RestAuthenticate(method, url, params)
    \/ WsAuthenticate
    \/ \E ttl \in TtlValues : SetAuthToken(EXTERNAL_TOKEN, ttl)
    \/ \E ttl \in TtlValues : CreateAuthToken(ttl)

(***************************************************************************)
(* User stream data sources: _process_event_message.  A message is known   *)
(* by what its "error" field holds and by its "channel".                   *)
(***************************************************************************)
USER_ORDERS_ENDPOINT_NAME == "orders"
USEREVENT_ENDPOINT_NAME == "fills"

\* event_message.get("error"): the key is missing, or holds null, an object
\* with a "message", an object without one, or a plain string
ErrorFields == {"absent", "null", "object_message", "object", "string"}
EventChannels == {USER_ORDERS_ENDPOINT_NAME, USEREVENT_ENDPOINT_NAME,
                  "positions", "funding", "subscribed"}
EventMessages == [error : ErrorFields, channel : EventChannels]

\* 'event_message.get("error") is not None'
HasError(m) == m.error \notin {"absent", "null"}

\* the values .get("message", ...) can be called on: dictionaries
HasGet(error) == error \in {"object_message", "object"}

\* the channels put on the queue: the spot source lists orders and fills, the
\* perpetual source the position and funding channels as well
QueuedChannels(perp) ==
    {USER_ORDERS_ENDPOINT_NAME, USEREVENT_ENDPOINT_NAME}
        \cup (IF perp THEN {"positions", "funding"} ELSE {})

NotRaised == [type |-> "none", label |-> "none"]

\* The exception _process_event_message leaves with: the IOError it builds,
\* or the AttributeError of calling .get on a value that is not a dictionary.
ProcessEventRaises(m) ==
    IF ~HasError(m) THEN NotRaised
    ELSE IF HasGet(m.error) THEN [type |-> "IOError", label |-> "WSS_ERROR"]
    ELSE [type |-> "AttributeError", label |-> "none"]

EventInit ==
    /\ ev_queue = <<>>
    /\ ev_count = 0
    /\ ev_last = [perp |-> FALSE, msg |-> [error |-> "absent", channel |-> "subscribed"],
                  raised |-> NotRaised, queued |-> FALSE]

\* _process_event_message(event_message, queue) of the spot (perp = FALSE) or
\* the perpetual (perp = TRUE) user stream data source
ProcessEventMessage(perp, m) ==
    /\ ev_count < MaxEvents
    /\ ev_count' = ev_count + 1
    /\ LET raised == ProcessEventRaises(m)
           put == ~HasError(m) /\ m.channel \in QueuedChannels(perp)
       IN  /\ ev_queue' = IF put THEN Append(ev_queue, m) ELSE ev_queue
           /\ ev_last' = [perp |-> perp, msg |-> m, raised |-> raised,
                          queued |-> put]

EventNext ==
    \E perp \in BOOLEAN, m \in EventMessages : ProcessEventMessage(perp, m)

(***************************************************************************)
(* Order book stream subscriptions.  _subscription_count is set to 0 by    *)
(* __init__ and only ever incremented: it counts the subscribe messages    *)
(* the data source sent over all its connections.                          *)
(***************************************************************************)
WS_MAX_SUBSCRIPTIONS == 1000

NoSubscribe == [before |-> 0, pairs |-> 0, sent |-> 0, outcome |-> "none"]

SubscribeInit ==
    /\ subscription_count = 0
    /\ sub_last = NoSubscribe

\* The loop of _subscribe_channels over the "left" remaining trading pairs:
\* the ceiling is tested once per pair, then the trades and the order book
\* subscriptions are sent, each followed by an increment.  The send number
\* "fail" (counted from 0 within the call) raises.
RECURSIVE SubscribePairs(_, _, _, _)
SubscribePairs(count, sent, left, fail) ==
    IF left = 0 THEN [count |-> count, sent |-> sent, outcome |-> "returned"]
    ELSE IF count >= WS_MAX_SUBSCRIPTIONS
         THEN [count |-> count, sent |-> sent, outcome |-> "ceiling"]
    ELSE IF fail = sent
         THEN [count |-> count, sent |-> sent, outcome |-> "raised"]
    ELSE IF fail = sent + 1
         THEN [count |-> count + 1, sent |-> sent + 1, outcome |-> "raised"]
    ELSE SubscribePairs(count + 2, sent + 2, left - 1, fail)

\* _subscribe_channels of the order book data source with "pairs" trading
\* pairs, on whichever connection is current.
SubscribeChannels(pairs, fail) ==
    LET r == SubscribePairs(subscription_count, 0, pairs, fail)
    IN  /\ subscription_count' = r.count
        /\ sub_last' = [before |-> subscription_count, pairs |-> pairs,
                        sent |-> r.sent, outcome |-> r.outcome]

SubscribeNext ==
    \E pairs \in 1..MaxPairs, fail \in 0..(2 * MaxPairs) : SubscribeChannels(pairs, fail)

(***************************************************************************)
(* Authenticators of one signing identity (account_index, api_key_index).  *)
(* The "authenticator" property of both connectors builds a LighterAuth    *)
(* from the connector's configured keys whenever it is read, and           *)
(* LighterAuth.__init__ gives each instance its own _NonceManager.         *)
(***************************************************************************)
IdentityInit ==
    /\ auth_nonces = <<>>
    /\ signed_nonces = <<>>

\* self._nonce = _NonceManager(): the counter starts at 0
NewNonceManager(nonces) == 0

\* connector.authenticator -> LighterAuth(...), on the spot or the perpetual
\* connector configured with this identity
Authenticator ==
    /\ Len(auth_nonces) < MaxAuths
    /\ auth_nonces' = Append(auth_nonces, NewNonceManager(auth_nonces))
    /\ UNCHANGED signed_nonces

\* what get_next_nonce of instance a returns
InstanceNonce(nonces, a) == nonces[a] + 1

\* the counters after get_next_nonce of instance a
AfterNonce(nonces, a) == [nonces EXCEPT ![a] = @ + 1]

\* add_auth_to_params_post of instance a for a transaction URL: the nonce
\* of get_next_nonce goes into the signed transaction
SignTransaction(a) ==
    /\ Len(signed_nonces) < MaxSigned
    /\ signed_nonces' = Append(signed_nonces, InstanceNonce(auth_nonces, a))
    /\ auth_nonces' = AfterNonce(auth_nonces, a)

IdentityNext ==
    \/ Authenticator
    \/ \E a \in DOMAIN auth_nonces : SignTransaction(a)

(***************************************************************************)
(* The connector's _user_stream_event_listener takes the messages its user *)
(* stream data source queued, oldest first.  The data source looks at the  *)
(* "error" and "channel" keys only; what the "type" key of a message holds *)
(* shows when the perpetual listener reads it.                             *)
(***************************************************************************)
TypeFields == {"absent", "order", "trade", "position"}

NoDispatch ==
    [msg |-> [error |-> "absent", channel |-> "subscribed"], type |-> "absent",
     handler |-> "none", raised |-> FALSE, survived |-> FALSE]

\* the handler the spot listener calls: it compares event_message["channel"]
SpotRoute(m) ==
    IF m.channel = USER_ORDERS_ENDPOINT_NAME THEN "_process_order_message"
    ELSE IF m.channel = USEREVENT_ENDPOINT_NAME THEN "_process_trade_message"
    ELSE "none"

\* the handler the perpetual listener calls: it compares event_message["type"]
PerpRoute(type) ==
    IF type = "order" THEN "_process_order_message"
    ELSE IF type = "trade" THEN "_process_trade_message"
    ELSE "none"

\* A listener that ends with the exception of a handler.
AfterHandlerError_Ends(perp) == "ended"

\* "except Exception": the spot listener logs and takes the next message,
\* the perpetual one logs and sleeps 5 seconds first
AfterHandlerError(perp) == IF perp THEN "sleep" ELSE "get"

\* One turn of "async for event_message in self._iter_user_event_queue()".
\* The spot handlers catch their own exceptions; the perpetual ones raise
\* into the listener when "ok" is false.
UserStreamEventListener(type, ok) ==
    /\ dl_pc = "get"
    /\ ev_queue # <<>>
    /\ LET perp == (conn = "perp")
           m == Head(ev_queue)
           handler == IF perp THEN PerpRoute(type) ELSE SpotRoute(m)
           raised == perp /\ handler # "none" /\ ~ok
       IN  /\ ev_queue' = Tail(ev_queue)
           /\ dl_pc' = IF raised THEN AfterHandlerError(perp) ELSE "get"
           /\ dl_last' = [msg |-> m, type |-> type, handler |-> handler,
                          raised |-> raised,
                          survived |-> (dl_last.raised \/ dl_last.survived)]
    /\ UNCHANGED <<ev_count, ev_last, conn>>

DispatchNext ==
    \/ /\ \E c \in {"spot", "perp"} : OrdConstruct(c)
       /\ UNCHANGED <<eventVars, dl_pc, dl_last>>
    \/ /\ conn # "unbuilt"
       /\ \E m \in EventMessages : ProcessEventMessage(conn = "perp", m)
       /\ UNCHANGED <<conn, dl_pc, dl_last>>
    \/ \E type \in TypeFields, ok \in BOOLEAN : UserStreamEventListener(type, ok)
    \/ /\ DlSleepDone
       /\ UNCHANGED <<eventVars, conn, dl_last>>
    \/ /\ DlCancelled
       /\ UNCHANGED <<eventVars, conn, dl_last>>

(***************************************************************************)
(* Positions of the perpetual connector.  A position is cached under the   *)
(* key (trading pair, side); the response lists markets with a signed      *)
(* size.                                                                   *)
(***************************************************************************)
Markets == 1..MaxMarkets
Sizes == -1..1
PositionResponses ==
    [success : BOOLEAN, listed : SUBSET Markets, size : [Markets -> Sizes]]

NoPositions == [success |-> FALSE, listed |-> {}, size |-> [m \in Markets |-> 0]]

PositionInit ==
    /\ account_positions = {}
    /\ pos_last = [op |-> "none", response |-> NoPositions]

\* PositionSide.LONG if size > 0 else PositionSide.SHORT
PositionSideOf(size) == IF size > 0 THEN "LONG" ELSE "SHORT"

Abs(n) == IF n < 0 THEN -n ELSE n

\* the positions of the response with a size other than 0
OpenPositions(response) ==
    {[market |-> m, side |-> PositionSideOf(response.size[m]),
      amount |-> Abs(response.size[m])] :
        m \in {k \in response.listed : response.size[k] # 0}}

\* set_position(pos_key, position) for every position of "open"
SetPositions(cache, open) ==
    {p \in cache : \A q \in open : q.market # p.market \/ q.side # p.side}
        \cup open

\* _update_positions: an unsuccessful response changes nothing; entries of
\* size 0 are skipped; the cache is emptied when the list is empty
UpdatePositions(response) ==
    /\ pos_last' = [op |-> "update", response |-> response]
    /\ account_positions' =
           IF ~response.success THEN account_positions
           ELSE LET cache == SetPositions(account_positions,
                                          OpenPositions(response))
                IN  IF response.listed = {} THEN {} ELSE cache

PositionNext ==
    \E response \in PositionResponses : UpdatePositions(response)

(***************************************************************************)
(* The trading pair symbol map of the perpetual connector.  A trading pair *)
(* is a (base, quote) couple, numbered; an exchange symbol is known by the *)
(* pair of its market and by its spelling: spelling 0 is "base-quote", the *)
(* others are different strings.  The map is the set of its (exchange      *)
(* symbol, trading pair) entries; symbols are unique in the markets list.  *)
(***************************************************************************)
TradingPairs == 1..MaxMarkets
ExchangeSymbols == [pair : TradingPairs, spelling : 0..MaxVariants]

\* expected_exchange_symbol = f"{base}-{quote}"
ExpectedExchangeSymbol(pair) == [pair |-> pair, spelling |-> 0]

\* the markets lists: each entry a symbol with the base and quote of its pair
MarketLists ==
    UNION {{l \in [1..n -> ExchangeSymbols] :
                \A i, j \in 1..n : i # j => l[i] # l[j]} : n \in 1..MaxListed}

SymbolInit ==
    /\ symbol_map = {}
    /\ sym_markets = <<>>

\* mapping.inverse[trading_pair]
CurrentExchangeSymbol(mapping, pair) ==
    (CHOOSE e \in mapping : e.pair = pair).symbol

\* A resolution that keeps whichever symbol came first.
ResolveTradingPairSymbolsDuplicate_KeepFirst(mapping, new_exchange_symbol, pair) == mapping

\* _resolve_trading_pair_symbols_duplicate
ResolveTradingPairSymbolsDuplicate(mapping, new_exchange_symbol, pair) ==
    LET current_exchange_symbol == CurrentExchangeSymbol(mapping, pair)
        without == {e \in mapping : e.symbol # current_exchange_symbol}
    IN  IF current_exchange_symbol = ExpectedExchangeSymbol(pair) THEN mapping
        ELSE IF new_exchange_symbol = ExpectedExchangeSymbol(pair)
        THEN without \cup {[symbol |-> new_exchange_symbol, pair |-> pair]}
        ELSE without

\* the body of "for market in markets"
AddMarket(mapping, symbol) ==
    IF \E e \in mapping : e.pair = symbol.pair
    THEN ResolveTradingPairSymbolsDuplicate(mapping, symbol, symbol.pair)
    ELSE mapping \cup {[symbol |-> symbol, pair |-> symbol.pair]}

RECURSIVE BuildSymbolMap(_, _, _)
BuildSymbolMap(mapping, markets, i) ==
    IF i > Len(markets) THEN mapping
    ELSE BuildSymbolMap(AddMarket(mapping, markets[i]), markets, i + 1)

\* _initialize_trading_pair_symbols_from_exchange_info(exchange_info)
InitializeTradingPairSymbols(markets) ==
    /\ sym_markets' = markets
    /\ symbol_map' = BuildSymbolMap({}, markets, 1)

\* the map is built from a fresh bidict, so one build from the initial state
\* shows every outcome
SymbolNext ==
    /\ sym_markets = <<>>
    /\ \E markets \in MarketLists : InitializeTradingPairSymbols(markets)

(***************************************************************************)
(* Specifications                                                          *)
(***************************************************************************)
Init ==
    /\ NonceInit
    /\ StreamInit
    /\ ThrottleInit
    /\ OrderInit
    /\ AuthInit
    /\ EventInit
    /\ olast = NoAudit
    /\ SubscribeInit
    /\ IdentityInit
    /\ dl_last = NoDispatch
    /\ PositionInit
    /\ SymbolInit

SpecNonce == Init /\ [][NonceNext /\ UNCHANGED <<streamVars, sessionVars, throttleVars, orderVars, authVars, eventVars, olast, subscribeVars, identityVars, dispatchVars, positionVars, symbolVars>>]_vars

SpecStream == Init /\ [][StreamNext /\ UNCHANGED <<nonceVars, throttleVars, orderVars, authVars, eventVars, olast, subscribeVars, identityVars, dispatchVars, positionVars, symbolVars>>]_vars

SpecThrottle == Init /\ [][ThrottleNext /\ UNCHANGED <<nonceVars, streamVars, sessionVars, orderVars, authVars, eventVars, olast, subscribeVars, identityVars, dispatchVars, positionVars, symbolVars>>]_vars

SpecOrders == Init /\ [][OrderNext /\ UNCHANGED <<nonceVars, streamVars, sessionVars, throttleVars, authVars, eventVars, olast, subscribeVars, identityVars, dispatchVars, positionVars, symbolVars>>]_vars

\* The running call is scheduled: asyncio.sleep returns and the synchronous
\* create_auth_token returns (weak fairness); the transport, asked again and
\* again, eventually accepts (strong fairness on the successful connect).
\* Whether the owner calls again is left open.
OutsideStream == <<nonceVars, throttleVars, orderVars, authVars, eventVars, olast, subscribeVars, identityVars, dispatchVars, positionVars, symbolVars>>

SpecStreamLive ==
    /\ Init
    /\ [][StreamLiveNext /\ UNCHANGED OutsideStream]_vars
    /\ WF_vars(WsSleepDone /\ UNCHANGED OutsideStream)
    /\ WF_vars(WsGetAuthToken(TRUE) /\ UNCHANGED OutsideStream)
    /\ SF_vars(WsConnectOk /\ UNCHANGED OutsideStream)

SpecSession == Init /\ [][SessionNext /\ UNCHANGED OutsideStream]_vars

SpecSubscribe ==
    Init /\ [][SubscribeNext /\ UNCHANGED <<nonceVars, streamVars, sessionVars, throttleVars,
                                           orderVars, authVars, eventVars, olast,
                                           identityVars, dispatchVars, positionVars,
                                           symbolVars>>]_vars

SpecOrderUpdates ==
    Init /\ [][OrderUpdateNext /\ UNCHANGED <<nonceVars, streamVars, sessionVars, throttleVars,
                                             authVars, eventVars, subscribeVars, identityVars, dispatchVars, positionVars, symbolVars>>]_vars

SpecIdentity ==
    Init /\ [][IdentityNext /\ UNCHANGED <<nonceVars, streamVars, sessionVars, throttleVars,
                                          orderVars, authVars, eventVars, olast,
                                          subscribeVars, dispatchVars, positionVars, symbolVars>>]_vars

SpecDispatch ==
    Init /\ [][DispatchNext /\ UNCHANGED <<nonceVars, streamVars, ws_subs, heartbeatVars,
                                          throttleVars, order_tracker, order_steps,
                                          oghost, fed, applied, authVars, olast,
                                          subscribeVars, identityVars, positionVars,
                                          symbolVars>>]_vars

SpecPositions ==
    Init /\ [][PositionNext /\ UNCHANGED <<nonceVars, streamVars, sessionVars, throttleVars,
                                          orderVars, authVars, eventVars, olast,
                                          subscribeVars, identityVars, dispatchVars,
                                          symbolVars>>]_vars

SpecSymbols ==
    Init /\ [][SymbolNext /\ UNCHANGED <<nonceVars, streamVars, sessionVars, throttleVars,
                                        orderVars, authVars, eventVars, olast,
                                        subscribeVars, identityVars, dispatchVars,
                                        positionVars>>]_vars

SpecOrderAudit ==
    Init /\ [][OrderAuditNext /\ UNCHANGED <<nonceVars, streamVars, sessionVars, throttleVars,
                                            authVars, eventVars, subscribeVars, identityVars, dispatchVars, positionVars, symbolVars>>]_vars

SpecAuth ==
    Init /\ [][AuthNext /\ UNCHANGED <<nonce_lock, thr, ncalls, nlog, streamVars, sessionVars,
                                      throttleVars, orderVars, eventVars, olast, subscribeVars, identityVars, dispatchVars, positionVars, symbolVars>>]_vars

SpecEvents ==
    Init /\ [][EventNext /\ UNCHANGED <<nonceVars, streamVars, sessionVars, throttleVars,
                                       orderVars, authVars, olast, subscribeVars, identityVars, dispatchVars, positionVars, symbolVars>>]_vars

(***************************************************************************)
(* Nonce claims.  nlog lists the completed calls in the order they         *)
(* returned: for next() the value returned, for set() the argument and     *)
(* the counter before and after.                                           *)
(***************************************************************************)
\* The counter before the calls of the run that starts after log position j:
\* 0 on a fresh manager, else what the set() at position j left.
CounterAt(j) == IF j = 0 THEN 0 ELSE nlog[j].ret

\* Positions j+1..m of the log are next() calls following directly a set()
\* (or the construction, j = 0), with no set() among them.
NextRun(j, m) ==
    /\ j < m
    /\ j = 0 \/ nlog[j].op = "set"
    /\ \A i \in (j + 1)..m : nlog[i].op = "next"

\* C1: N concurrent next() calls with no set() in between return exactly
\* {k+1, ..., k+N}, without repeats, k being the counter before the calls
\* (k = 0 on a fresh manager: the first call returns 1).
C1_NextReturnsConsecutive ==
    \A j \in 0..Len(nlog), m \in 1..Len(nlog) :
        NextRun(j, m) =>
            LET rets == {nlog[i].ret : i \in (j + 1)..m}
            IN /\ rets = (CounterAt(j) + 1)..(CounterAt(j) + (m - j))
               /\ Cardinality(rets) = m - j

\* Two callers were inside next() one after the other following a set() that
\* raised the counter.
C1_Witness ==
    \E j \in 1..Len(nlog) :
        /\ j + 2 <= Len(nlog)
        /\ nlog[j].op = "set" /\ nlog[j].arg > nlog[j].before
        /\ NextRun(j, j + 2)
        /\ nlog[j + 1].th # nlog[j + 2].th

\* C2: under any interleaving of next() and set(value), next() never returns
\* a value less than or equal to one it returned before.
C2_NextStrictlyIncreasing ==
    \A i, j \in 1..Len(nlog) :
        (i < j /\ nlog[i].op = "next" /\ nlog[j].op = "next")
            => nlog[i].ret < nlog[j].ret

\* A set() with a value below the counter came between two next() calls.
C2_Witness ==
    \E i \in 1..Len(nlog) :
        /\ i + 2 <= Len(nlog)
        /\ nlog[i].op = "next"
        /\ nlog[i + 1].op = "set" /\ nlog[i + 1].arg < nlog[i + 1].before
        /\ nlog[i + 2].op = "next"

\* C3: set(v) is a floor-advance: with c the counter before, the counter
\* after is v if v > c and c otherwise (never lower than c), and a next()
\* that follows directly returns v+1, respectively c+1.
C3_SetFloorAdvance ==
    \A i \in 1..Len(nlog) :
        nlog[i].op = "set" =>
            LET v == nlog[i].arg
                c == nlog[i].before
            IN /\ nlog[i].ret >= c
               /\ nlog[i].ret = IF v > c THEN v ELSE c
               /\ (i < Len(nlog) /\ nlog[i + 1].op = "next")
                     => nlog[i + 1].ret = IF v > c THEN v + 1 ELSE c + 1

\* Both cases happened: a set() above the counter and one not above a
\* positive counter, each followed directly by a next().
C3_Witness ==
    /\ \E i \in 1..Len(nlog) :
          /\ i < Len(nlog)
          /\ nlog[i].op = "set" /\ nlog[i].arg > nlog[i].before
          /\ nlog[i + 1].op = "next"
    /\ \E i \in 1..Len(nlog) :
          /\ i < Len(nlog)
          /\ nlog[i].op = "set" /\ nlog[i].arg <= nlog[i].before
          /\ nlog[i].before > 0
          /\ nlog[i + 1].op = "next"

(***************************************************************************)
(* Stream claims                                                           *)
(***************************************************************************)
\* C8: with initial 1 s, multiplier 2 and maximum 60 s, the first three
\* rate-limited connect failures in a row wait 1 s, 2 s and 4 s in that order,
\* and a successful connect resets the stored backoff to 1 s, so that the next
\* failure sequence starts at 1 s again.
C8_BackoffGrowthAndReset ==
    /\ INITIAL_BACKOFF = 1 /\ BACKOFF_MULTIPLIER = 2 /\ MAX_BACKOFF = 60
    /\ \A i \in 1..Min(3, Len(waits)) : waits[i] = <<1, 2, 4>>[i]
    /\ ws_pc = "connected" => current_backoff = 1

\* After three or more rate-limited failures and a successful connect, a new
\* failure sequence has begun.
C8_Witness ==
    /\ Len(prev_waits) >= 3
    /\ Len(waits) >= 3

NotRateLimit(msg) == msg \cap RateLimitMarks = {}

\* C17: a connect failure whose message contains none of "429", "too many",
\* "rate limit" is re-raised from _connected_websocket_assistant on that same
\* attempt: no backoff sleep, no further connect attempt, and the stored
\* backoff left as it was.
C17_OtherFailureReraised ==
    (ws_error.op = "connect" /\ NotRateLimit(ws_error.msg)) =>
        /\ ws_pc = "raised"
        /\ Len(waits) = ws_error.sleeps
        /\ ws_attempts = ws_error.attempts
        /\ current_backoff = ws_error.backoff

\* such a failure on the third attempt of a call, after the backoff has grown
C17_Witness ==
    /\ ws_error.op = "connect" /\ NotRateLimit(ws_error.msg)
    /\ ws_pc = "raised"
    /\ ws_attempts = 3
    /\ current_backoff = 4

\* C28: in every reachable state of a stream data source INITIAL_BACKOFF <=
\* _current_backoff <= MAX_BACKOFF; the k-th rate-limit wait in a row
\* (k = 0, 1, ...) is min(INITIAL_BACKOFF * BACKOFF_MULTIPLIER^k, MAX_BACKOFF);
\* and the value changes only by the multiplication after a rate-limit
\* failure or by the reset to INITIAL_BACKOFF on a successful connect.
C28_BackoffBoundsAndSchedule ==
    /\ [](INITIAL_BACKOFF <= current_backoff /\ current_backoff <= MAX_BACKOFF)
    /\ [](\A i \in DOMAIN waits :
            waits[i] = Min(INITIAL_BACKOFF * BACKOFF_MULTIPLIER ^ (i - 1),
                           MAX_BACKOFF))
    /\ [][current_backoff' # current_backoff =>
            \/ /\ ws_pc = "sleep"
               /\ current_backoff' = Min(current_backoff * BACKOFF_MULTIPLIER,
                                         MAX_BACKOFF)
            \/ /\ ws_pc = "connect" /\ ws_pc' = "connected"
               /\ current_backoff' = INITIAL_BACKOFF]_vars

\* the waits in a row have reached the cap and stay there
C28_Witness ==
    /\ Len(waits) = MaxFailures
    /\ waits[MaxFailures - 1] = MAX_BACKOFF
    /\ waits[MaxFailures] = MAX_BACKOFF
    /\ current_backoff = MAX_BACKOFF

InCall == ws_pc \in {"auth", "connect", "sleep", "refresh"}

\* C18: the rate-limit reconnect loop has no retry ceiling: after k rate-limited
\* connect failures in a row the call is still retrying; when the transport
\* then accepts, the call returns connected after exactly k + 1 attempts; and
\* if the transport eventually accepts, the call ends connected.
C18_NoRetryCeiling ==
    /\ [](ws_pc # "raised")
    /\ [](ws_pc \in {"connect", "sleep", "refresh"} => ws_attempts = ws_failures)
    /\ [](ws_pc = "connected" => ws_attempts = ws_failures + 1)
    /\ InCall ~> (ws_pc = "connected")

\* a call returns connected after as many rate-limited failures as the
\* model allows in a row
C18_Witness ==
    /\ ws_pc = "connected"
    /\ ws_failures = MaxFailures
    /\ ws_attempts = MaxFailures + 1

\* C19: if creating the auth token fails, before the first connect attempt
\* or while refreshing after a rate-limit backoff, the failure leaves
\* _connected_websocket_assistant: no further connect attempt and no backoff
\* sleep happens in that call.
C19_TokenFailureAborts ==
    ws_error.op = "token" =>
        /\ ws_pc = "raised"
        /\ ws_attempts = ws_error.attempts
        /\ Len(waits) = ws_error.sleeps
        /\ ws_attempts = ws_failures

\* the token refresh fails after two rate-limited attempts of the call
C19_Witness ==
    /\ ws_error.op = "token"
    /\ ws_pc = "raised"
    /\ ws_failures = 2

(***************************************************************************)
(* Throttler claims                                                        *)
(***************************************************************************)
\* The weight reserved in a pool by admissions inside [t0, t0 + window).
ConsumedIn(pool, t0) ==
    SumOver(charged[pool],
            {t \in TimePoints : t0 <= t /\ t < t0 + RuleOf(pool).time_interval})

\* C9: the cumulative weight of the admitted requests on any rule or shared
\* pool inside any interval of the window's length never exceeds max_count.
C9_NeverOverLimit ==
    \A pool \in LimitIds, t0 \in TimePoints :
        ConsumedIn(pool, t0) <= RuleOf(pool).limit

\* The shared pool has been charged by admissions at two different times of
\* one window and has no room left for another order book request.
C9_Witness ==
    /\ \E t1, t2 \in TimePoints :
          /\ t1 < t2 /\ t2 - t1 < TIME_INTERVAL
          /\ charged[ALL_ENDPOINTS_LIMIT][t1] > 0
          /\ charged[ALL_ENDPOINTS_LIMIT][t2] > 0
    /\ Used(ALL_ENDPOINTS_LIMIT, now) + WEIGHT_PUBLIC_DATA > MAX_REQUEST_PER_MINUTE

\* C10: admission is atomic over the rule and its linked pools: what every
\* pool holds is exactly the weights of whole admitted requests (each one
\* charged on its own rule and on every pool linked to it, or nowhere), and a
\* suspended request has consumed nothing.
C10_AtomicAdmission ==
    \A pool \in LimitIds, t \in TimePoints :
        charged[pool][t] =
            SumOver([r \in LimitIds |-> admitted[r][t] * WeightOn(r, pool)], LimitIds)

\* A request is suspended for lack of room in the shared pool only (its own
\* rule is empty) while other requests have been admitted.
C10_Witness ==
    \E id \in th_waiting :
        /\ ~WithinCapacity(id)
        /\ Used(id, now) = 0
        /\ Used(ALL_ENDPOINTS_LIMIT, now) > 0
        /\ Used(ALL_ENDPOINTS_LIMIT, now) + WeightOn(id, ALL_ENDPOINTS_LIMIT)
              > MAX_REQUEST_PER_MINUTE
        /\ WeightOn(id, ALL_ENDPOINTS_LIMIT) <= MAX_REQUEST_PER_MINUTE

\* no reservation counts any more in any pool the rule touches
NoOutstandingConsumption(id) ==
    \A pool \in Touched(id) : Used(pool, now) = 0

\* C11: the throttler only delays: for every rule of RATE_LIMITS an acquire
\* on a throttler with no outstanding consumption is admitted at once (it
\* has headroom in its own rule and in the shared pool), so that no acquire
\* waits forever.
C11_IdleThrottlerAdmits ==
    \A id \in th_waiting :
        NoOutstandingConsumption(id) => WithinCapacity(id)

(***************************************************************************)
(* LighterAuth claims.  auth_last is the last operation: when it ran       *)
(* (at), the cache it found (had_token, had_expiry) and what it produced.  *)
(***************************************************************************)
Authenticated == auth_last.op \in {"rest", "ws"}

\* C12: rest_authenticate and ws_authenticate attach the bearer token only
\* if a token is cached and now < expires_at; at or after expiry the cached
\* token is not attached.
C12_TokenOnlyBeforeExpiry ==
    Authenticated =>
        /\ auth_last.header # 0 =>
               /\ auth_last.had_token # 0
               /\ auth_last.header = auth_last.had_token
               /\ auth_last.at < auth_last.had_expiry
        /\ auth_last.at >= auth_last.had_expiry => auth_last.header = 0

\* a request authenticated exactly at the expiry of a cached token
C12_Witness ==
    /\ Authenticated
    /\ auth_last.had_token # 0
    /\ auth_last.at = auth_last.had_expiry
    /\ auth_last.header = 0

\* C13: an authenticated request issued after the cached token expired
\* regenerates the token first and leaves with a fresh, unexpired token.
C13_ExpiredTokenRegenerated ==
    (Authenticated /\ auth_last.had_token # 0
                   /\ auth_last.at >= auth_last.had_expiry) =>
        /\ auth_last.header # 0
        /\ auth_last.header # auth_last.had_token
        /\ auth_last.header = auth_token
        /\ auth_last.at < auth_token_expiry

\* C14: the auth-token operation returns the cached token without calling
\* the signer while now < expires_at; otherwise it asks the signer, caches
\* the result with expires_at = now + ttl and returns it.
C14_CachedTokenReused ==
    auth_last.op = "create" =>
        IF TokenUsable(auth_last.had_token, auth_last.had_expiry, auth_last.at)
        THEN /\ ~auth_last.signer_called
             /\ auth_last.ret = auth_last.had_token
        ELSE /\ auth_last.signer_called
             /\ auth_last.ret = auth_token
             /\ auth_token_expiry = auth_last.at + auth_last.ttl

IsCreateOrder(params) == "market_id" \in params /\ "base_amount" \in params
IsCancelOrder(params) == ~IsCreateOrder(params) /\ "order_index" \in params
SignedPost == auth_last.op = "rest" /\ auth_last.method = "POST"

\* C15: a signed request goes to exactly one of three signers by its kind:
\* a create-order payload to the create-order signer, a cancel-order payload
\* to the cancel-order signer, a request to /api/v1/sendTxBatch to the
\* cancel-all signer, each with the nonce obtained for the request.
C15_ThreeSigningPaths ==
    SignedPost =>
        /\ auth_last.url = CANCEL_ALL_ORDERS_URL =>
               /\ auth_last.payload.signer = "cancel_all"
               /\ auth_last.payload.nonce = auth_last.nonce
        /\ (auth_last.url = CREATE_ORDER_URL /\ IsCreateOrder(auth_last.params)) =>
               /\ auth_last.payload.signer = "create_order"
               /\ auth_last.payload.nonce = auth_last.nonce
        /\ (auth_last.url = CREATE_ORDER_URL /\ IsCancelOrder(auth_last.params)) =>
               /\ auth_last.payload.signer = "cancel_order"
               /\ auth_last.payload.nonce = auth_last.nonce

UnknownKind ==
    /\ SignedPost
    /\ auth_last.url = CREATE_ORDER_URL
    /\ ~IsCreateOrder(auth_last.params)
    /\ ~IsCancelOrder(auth_last.params)

\* C16: a /sendTx payload that is neither a create-order nor a cancel-order
\* is wrapped as {payload, nonce} with exactly the nonce consumed for this
\* request, and no signer is called.
C16_UnknownKindWrapped ==
    UnknownKind =>
        /\ auth_last.payload.kind = "wrapper"
        /\ auth_last.payload.signer = "none"
        /\ auth_last.payload.tx = auth_last.params
        /\ auth_last.payload.nonce = auth_last.nonce
        /\ auth_last.nonce = nonce_last
        /\ nonce_last > 0

\* the second POST of a run is of unknown kind and carries some keys
C16_Witness ==
    /\ UnknownKind
    /\ auth_last.params = {"market_id", "time_in_force"}
    /\ auth_last.payload.nonce = 2

(***************************************************************************)
(* Order claims: the audited inputs                                        *)
(***************************************************************************)
\* C25: once an order's exchange_order_id has been observed it never
\* changes: no later REST status response or websocket order message for
\* the same client_order_id, even one with a different exchange order id,
\* alters the stored one.
C25_ExchangeOrderIdImmutable ==
    [][\A o \in ClientIds :
          order_tracker[o].exid # 0 =>
              order_tracker'[o].exid = order_tracker[o].exid]_vars

\* a message with another exchange order id was applied to an order whose
\* exchange order id was known, and the order still has its own
C25_Witness ==
    /\ olast.kind = "other_exid"
    /\ olast.changed
    /\ \A o \in ClientIds :
           order_tracker[o].placed => order_tracker[o].exid = ExchangeOrderId(o)

C27_NotFoundOnlyWhenReported ==
    olast.lost => olast.kind = "cancel_not_found"

(***************************************************************************)
(* Order claims: which update wins, how an update finds its order.         *)
(***************************************************************************)
\* The last input was a non-terminal update for an order that was still
\* updatable, found as "matched" says.
UpdateDelivered(matched) ==
    /\ olast.kind = "update"
    /\ olast.matched = matched
    /\ olast.new_state \notin DoneStates
    /\ olast.pre_state \notin DoneStates

\* C31: a non-terminal update delivered for a tracked order, over REST or
\* over the websocket, leaves state and timestamp as they were when its
\* timestamp is older than the order's, and otherwise sets both.
C31_LaterTimestampWins ==
    UpdateDelivered("client_id") =>
        LET order == order_tracker[olast.o]
        IN  IF olast.ts < olast.pre_ts
            THEN order.state = olast.pre_state /\ order.ts = olast.pre_ts
            ELSE order.state = olast.new_state /\ order.ts = olast.ts

\* C32: a pushed order message without a client id whose exchange order id
\* is that of a tracked order is applied to that order.
C32_MatchedByExchangeOrderId ==
    UpdateDelivered("exchange_id") /\ olast.ts >= olast.pre_ts =>
        /\ order_tracker[olast.o].state = olast.new_state
        /\ order_tracker[olast.o].ts = olast.ts

(***************************************************************************)
(* Nonce claims across authenticators and requests.                        *)
(***************************************************************************)
\* C33: the nonces of the transactions signed for one identity are strictly
\* increasing over the run, whichever authenticator instance signed them.
C33_NonceIncreasesPerIdentity ==
    \A i, j \in DOMAIN signed_nonces :
        i < j => signed_nonces[i] < signed_nonces[j]

\* C34: a POST to a URL that needs no signing leaves the nonce counter as it
\* was and passes the parameters through unchanged.
C34_NonceOnlyWhenSigning ==
    [][/\ auth_ops' # auth_ops
       /\ auth_last'.op = "rest"
       /\ auth_last'.method = "POST"
       /\ ~Contains(SEND_TX_MARK, auth_last'.url)
       => /\ nonce_last' = nonce_last
          /\ auth_last'.payload.tx = auth_last'.params]_vars

(***************************************************************************)
(* Listener claims.                                                        *)
(***************************************************************************)
\* C36: the message the listener took off the queue reached the handler of
\* its kind: _process_order_message for the orders channel,
\* _process_trade_message for the fills channel.
C36_QueuedMessageReachesHandler ==
    /\ dl_last.msg.channel = USER_ORDERS_ENDPOINT_NAME
           => dl_last.handler = "_process_order_message"
    /\ dl_last.msg.channel = USEREVENT_ENDPOINT_NAME
           => dl_last.handler = "_process_trade_message"

\* C40: the listener is taking messages, sleeping after a logged error, or
\* cancelled; the turn in which a handler raised leaves it alive, and it
\* never ends in a turn that handled a message.
C40_OneBadEventNeverStopsDispatch ==
    /\ [](dl_pc \in {"get", "sleep", "cancelled"})
    /\ [][Len(ev_queue') < Len(ev_queue) => dl_pc' \in {"get", "sleep"}]_vars
    /\ [][dl_pc' \notin {"get", "sleep"} /\ dl_pc \in {"get", "sleep"}
            => dl_pc' = "cancelled" /\ ev_queue' = ev_queue]_vars

C40_Witness ==
    /\ dl_last.survived
    /\ ~dl_last.raised
    /\ dl_last.handler = "_process_order_message"
    /\ dl_pc = "get"

(***************************************************************************)
(* Position claims.                                                        *)
(***************************************************************************)
\* C37: after a successful _update_positions the cached positions are the
\* positions of the response with a size other than 0.
C37_PositionsEqualResponse ==
    pos_last.op = "update" /\ pos_last.response.success =>
        account_positions = OpenPositions(pos_last.response)

(***************************************************************************)
(* Symbol map claims.                                                      *)
(***************************************************************************)
\* the symbols the markets list gives for a trading pair
ListedSymbols(pair) ==
    {sym_markets[i] : i \in {k \in DOMAIN sym_markets : sym_markets[k].pair = pair}}

\* the entries of the map for a trading pair
MappedSymbols(pair) == {e.symbol : e \in {x \in symbol_map : x.pair = pair}}

\* C38: a trading pair for which the markets list, in whatever order, has
\* the symbol "base-quote" is mapped to exactly that symbol.
C38_ExpectedSymbolPreferred ==
    \A pair \in TradingPairs :
        ExpectedExchangeSymbol(pair) \in ListedSymbols(pair)
            => MappedSymbols(pair) = {ExpectedExchangeSymbol(pair)}

C38_Witness ==
    /\ Len(sym_markets) = 3
    /\ sym_markets[1].pair = 1 /\ sym_markets[1].spelling # 0
    /\ sym_markets[2].pair = 1 /\ sym_markets[2].spelling # 0
    /\ sym_markets[3] = ExpectedExchangeSymbol(1)
    /\ MappedSymbols(1) = {ExpectedExchangeSymbol(1)}

\* C39: a trading pair with two or more symbols in the markets list, none of
\* them "base-quote", is absent from the map.
C39_UnreconciledPairAbsent ==
    \A pair \in TradingPairs :
        /\ Cardinality(ListedSymbols(pair)) >= 2
        /\ ExpectedExchangeSymbol(pair) \notin ListedSymbols(pair)
        => MappedSymbols(pair) = {}

(***************************************************************************)
(* Subscription claims.                                                    *)
(***************************************************************************)
\* C21: _subscription_count never exceeds WS_MAX_SUBSCRIPTIONS, and a call
\* of _subscribe_channels that starts at the ceiling sends no subscribe
\* message and returns normally.
C21_SubscriptionCeiling ==
    /\ subscription_count <= WS_MAX_SUBSCRIPTIONS
    /\ sub_last.outcome # "none" /\ sub_last.before >= WS_MAX_SUBSCRIPTIONS
           => sub_last.sent = 0 /\ sub_last.outcome = "ceiling"

\* C35: whenever _subscribe_channels ran through without a send raising, it
\* sent one trades and one order book subscription for every trading pair,
\* and _subscription_count is the number of subscriptions of that session.
C35_SameSubscriptionsEverySession ==
    sub_last.outcome \in {"returned", "ceiling"} =>
        /\ sub_last.sent = 2 * sub_last.pairs
        /\ subscription_count = sub_last.sent

(***************************************************************************)
(* Session claims: token, subscription, heartbeat, cancellation.           *)
(***************************************************************************)
\* C30: on the private stream no subscribe message goes out unless the
\* current call created an auth token, every connect attempt of a call follows
\* exactly one token creation (the first, or one refresh per backoff), and a
\* backoff sleep is followed by the refresh, never directly by a connect.
C30_TokenBeforeSubscribeAndRefreshOnce ==
    ws_private =>
        /\ ws_subs > 0 => ws_tokens >= 1
        /\ ws_pc \in {"connected", "streaming"} => ws_tokens = ws_failures + 1
        /\ ws_pc = "connect" => ws_tokens = ws_failures + 1
        /\ ws_pc \in {"sleep", "refresh"} => ws_tokens = ws_failures

C30_Witness ==
    /\ ws_private
    /\ ws_pc = "streaming"
    /\ ws_subs = USER_STREAM_SUBSCRIPTIONS
    /\ ws_failures = 2
    /\ ws_tokens = 3

\* C22: the heartbeat loop sends one ping for every interval it slept
\* through while its sends succeed, and once a send has failed the loop has
\* ended and the task sends nothing more on that connection.
C22_HeartbeatPerIntervalUntilFailure ==
    /\ [](hb_pc = "sleep" /\ ~hb_failed => hb_pings = hb_sleeps)
    /\ [](hb_pc = "send" => ~hb_failed /\ hb_pings = hb_sleeps - 1)
    /\ [](hb_failed => hb_pc = "ended" /\ hb_pings = hb_sleeps - 1)
    /\ [][hb_failed /\ ws_sessions' = ws_sessions
            => hb_pc' = "ended" /\ hb_pings' = hb_pings]_vars

C22_Witness ==
    /\ hb_failed
    /\ hb_pc = "ended"
    /\ hb_pings = 1
    /\ hb_sleeps = 2

\* C23: a cancelled loop (reconnect, heartbeat, event dispatch) ends as a
\* cancelled task, never as a task that returned normally.
C23_CancellationPropagates ==
    /\ ws_pc # "returned"
    /\ hb_pc # "returned"
    /\ dl_pc # "returned"

\* C29: the heartbeat task runs only on a session that reached Streaming,
\* so no ping goes out on a session that connected but has not subscribed.
C29_HeartbeatOnlyWhenStreaming ==
    hb_pc \in {"sleep", "send"} => ws_pc = "streaming"

(***************************************************************************)
(* User stream message claims                                              *)
(***************************************************************************)
\* C20: for every inbound user-stream message whose error field is present
\* and not null, an object with a message or a plain string alike,
\* _process_event_message raises IOError labelled WSS_ERROR and puts
\* nothing on the output queue.
C20_ErrorMessageRaisesStreamError ==
    (ev_count > 0 /\ HasError(ev_last.msg)) =>
        /\ ev_last.raised = [type |-> "IOError", label |-> "WSS_ERROR"]
        /\ ~ev_last.queued

Channels(t) == {fed[t][i] : i \in DOMAIN fed[t]}

\* C4: a trade delivered for the same order both by the REST trade history
\* and by the user stream, in either order, changed the order's
\* filled_amount exactly once: the later delivery was a no-op.
C4_DuplicateFillAppliedOnce ==
    \A t \in TradeIds :
        Channels(t) = {"rest", "ws"} =>
            /\ applied[t] = 1
            /\ t \in order_tracker[RefOrder(t)].fills

C4_Witness ==
    /\ conn = "perp"
    /\ \E t1, t2 \in TradeIds :
           /\ fed[t1] = <<"rest", "ws">>
           /\ fed[t2] = <<"ws", "rest">>
           /\ applied[t1] = 1 /\ applied[t2] = 1

\* C5: once an order reached Filled, Canceled or Failed its state never
\* changes again, whatever order update arrives later; after Canceled an
\* update reporting Open leaves it Canceled.
C5_TerminalStateIrreversible ==
    \A o \in ClientIds :
        oghost[o].term \in TerminalStates =>
            order_tracker[o].state = oghost[o].term

C5_Witness ==
    \E o \in ClientIds :
        /\ oghost[o].term = "Canceled"
        /\ oghost[o].late_open
        /\ order_tracker[o].state = "Canceled"

\* the fills 0.4 and 0.6 of order o arrived, one from the REST trade
\* history only and one from the user stream only, and no other fill of o
TwoFillsScenario(o) ==
    /\ order_tracker[o].amount = 10
    /\ \E t1, t2 \in TradeIds :
           /\ RefOrder(t1) = o /\ RefOrder(t2) = o
           /\ TradeTable[t1].size = 4 /\ TradeTable[t2].size = 6
           /\ {fed[t1], fed[t2]} = {<<"rest">>, <<"ws">>}
           /\ \A t \in TradeIds \ {t1, t2} : RefOrder(t) = o => fed[t] = <<>>

C7_LostOrderIgnoresFills ==
    \A o \in ClientIds :
        oghost[o].nf_from = "Open" =>
            /\ order_tracker[o].state = LOST
            /\ order_tracker[o].state # "Canceled"
            /\ order_tracker[o].filled = oghost[o].lost_filled
            /\ order_tracker[o].fills = oghost[o].lost_fills

C7_Witness ==
    /\ conn = "spot"
    /\ \E o \in ClientIds :
           /\ oghost[o].nf_from = "Open"
           /\ oghost[o].late_fill
           /\ order_tracker[o].state = LOST

====
